---- MODULE Spec2Model ----
(***************************************************************************)
(* A model of nestjs-redis.                                                *)
(*                                                                         *)
(* The distributed lock (src/src/services/redis-lock.service.ts): several  *)
(* callers, possibly in different processes, share one Redis store and run *)
(* acquire, withLock, release, extend and forceRelease against it.  Every  *)
(* store round trip is an await: the store executes the command atomically *)
(* in one step and the caller resumes with the reply in a later step, so   *)
(* other callers' commands, the passing of time and key expiry interleave  *)
(* between them.  The connection named by options.clientName is taken to   *)
(* be registered, so that redisService.getClient returns it.               *)
(*                                                                         *)
(* The connection registry (src/src/services/redis-base.service.ts) and    *)
(* the pub/sub service (RedisPubSubService in                              *)
(* src/src/services/redis-list.service.ts): synchronous calls are one      *)
(* step; a call that awaits is one step up to the await and one step for   *)
(* its continuation, with the other calls interleaving in between.         *)
(***************************************************************************)
EXTENDS Integers, FiniteSets, Sequences, TLC

\* ---- bounds of the model ------------------------------------------------
\* Largest TTL, in ticks of the store's clock, a caller passes as ttlMs / newTtlMs.
MaxTtl == 2
\* Largest retryCount a caller passes.
MaxRetry == 1
\* Number of release() / extend() calls a caller makes on one handle.
MaxHandleOps == 2
\* Number of subscribe / psubscribe calls made on the pub/sub service.
MaxSubscribes == 2
\* Number of times the pub/sub service's onModuleDestroy is called.
MaxShutdowns == 2

\* The callers sharing the store (two processes, or two requests of one), and
\* the resource key they contend for.  Every store command of the service
\* names one lock key and touches no other, so one key carries the protocol.
Callers == {"c1", "c2"}
Keys == {"r1"}

\* TTL arguments: positive numbers of milliseconds (LockOptions.ttlMs).
TtlValues == 1..MaxTtl
RetryValues == 0..MaxRetry

\* private readonly lockPrefix = 'lock:'; lockKey = this.lockPrefix + key
lockPrefix == "lock:"
LockKey(k) == <<lockPrefix, k>>
LockKeys == {LockKey(k) : k \in Keys}

\* Owner tokens: generateLockId() is `${process.pid}:${Date.now()}:${random}`,
\* taken to be unique to the call.  Each caller makes one acquire or withLock
\* call in a run, so its token is told by the caller; 0 stands for "no token"
\* and for the value of an absent key.
NoId == 0
generateLockId(c) == IF c = "c1" THEN 1 ELSE 2
\* PTTL's sentinel for a key that does not exist.
NoKeyTtl == -2
\* PTTL's sentinel for a key that exists and has no expiry.
NoExpiryTtl == -1

\* What becomes of a store call: "ok" the store runs it and the reply
\* arrives; "lost" the store runs it and the connection fails before the
\* reply arrives; "fail" the connection fails before the store runs it.
Outcomes == {"ok", "lost", "fail"}

\* Connection names, the client instances given to addClient, and the
\* concurrent removeClient calls.
DEFAULT_REDIS_NAME == "default"
Names == {DEFAULT_REDIS_NAME, "cache"}
Clients == {"A", "B"}
NoClient == "undefined"
Removers == {"m1", "m2"}
\* The concurrent subscribe / psubscribe calls.
PubSubCallers == {"p1", "p2"}
\* A connection: a client instance given to addClient (serial 0), or the
\* serial-th duplicate made of it for subscriptions.
Conn(c) == <<c, 0>>
Duplicate(c, k) == <<c, k>>
NoSubscriber == <<NoClient, 0>>
\* How a quit() promise settles.
Settled == {"fulfilled", "rejected"}
\* Channel names (for subscribe) or patterns (for psubscribe), and the
\* non-empty arrays of them a call passes.
Topics == {"orders", "payments"}
TopicSets == SUBSET Topics \ {{}}
\* The two kinds of subscription and the commands and events of each.
SubKinds == {"subscribe", "psubscribe"}
Unsubscribe(kd) == IF kd = "subscribe" THEN "unsubscribe" ELSE "punsubscribe"
\* Subscriptions are told apart by their place in cleanupFunctions.
SubIds == 1..MaxSubscribes

VARIABLES
    storeVal,    \* store: lock key -> stored owner token (NoId: key absent)
    storeTtl,    \* store: lock key -> remaining TTL (NoKeyTtl: key absent)
    pc,          \* caller -> where its call stands
    kind,        \* caller -> "acquire" | "withLock" | "none"
    key,         \* caller -> resource key of its call
    lockId,      \* caller -> lockId generated by its call
    retryCount,  \* caller -> options.retryCount
    ttlMs,       \* caller -> options.ttlMs
    attempt,     \* caller -> loop variable of acquire
    newTtl,      \* caller -> argument of the extend() in flight
    reply,       \* caller -> reply of its latest store call
    lastRet,     \* caller -> what its latest release()/extend() returned
    result,      \* caller -> outcome of the acquire / withLock call
    fnOutcome,   \* caller -> how the function passed to withLock ended
    nSet,        \* caller -> conditional-set attempts issued by the call
    nDelay,      \* caller -> retry delays taken by the call
    nRelease,    \* caller -> release() calls made on the call's handle
    nOps,        \* caller -> release()/extend() calls made by the handle's user
    fnRuns,      \* caller -> invocations of the function passed to withLock
    lost,        \* caller -> how the store lost the key while it held the caller's lockId
    forceRet     \* what the latest forceRelease() whose caller looks at it returned

\* The connection registry (src/src/services/redis-base.service.ts): a map from
\* connection name to client, read and written by synchronous calls and by
\* the continuations of removeClient and onModuleDestroy, which await quit().
VARIABLES
    clients,     \* registry: connection name -> client instance (NoClient: no entry)
    registered,  \* name -> client of the latest addClient(name, c) no removal of name or shutdown has completed since
    got,         \* the latest getClient call: the name asked for and what came of it
    rpc,         \* removeClient call -> "idle" | "quitting" (awaiting client.quit())
    rName,       \* removeClient call -> its name argument
    rClient,     \* removeClient call -> the client it found and called quit() on
    rQuit,       \* removeClient call -> how its quit() settled
    rRet,        \* removeClient call -> what it returned
    dpc,         \* onModuleDestroy: "idle" | "racing" | "done"
    dQuits,      \* onModuleDestroy: name -> state of the quit() promise of that entry
    dRet         \* onModuleDestroy: "none" | "ok" (resolved) | "throw" (rejected)

regVars == <<clients, registered, got, rpc, rName, rClient, rQuit, rRet, dpc, dQuits, dRet>>

\* The pub/sub service (RedisPubSubService in
\* src/src/services/redis-list.service.ts): a table of subscriber connections
\* duplicated from the main ones, and the teardown functions of its
\* subscriptions.  Its mainClients map is the registry's map.
VARIABLES
    subscriberClients,  \* name -> subscriber connection (NoSubscriber: no entry)
    nDup,               \* name -> duplicate() calls made for the name
    cleanupFunctions,   \* the array of teardown functions, in push order
    sub,                \* the latest step of a pub/sub call and what came of it
    ppc,                \* subscribe call -> "idle" | "subscribing" (awaiting the command)
    pKind,              \* subscribe call -> "subscribe" | "psubscribe"
    pName,              \* subscribe call -> its clientName argument
    pClient,            \* subscribe call -> the subscriber connection it got
    spc,                \* pub/sub onModuleDestroy: "idle" | "cleanups" | "quits" | "done"
    sQuits,             \* pub/sub onModuleDestroy: name -> subscriber connection it called quit() on
    sRet,               \* pub/sub onModuleDestroy: "none" | "ok"
    pChannels,          \* subscribe call -> its channels / patterns argument
    pReply,             \* subscribe call -> how the command it awaits is going to settle
    handlers,           \* the 'message' / 'pmessage' listeners attached to subscriber connections, in on() order
    serverSubs,         \* store: the <<connection, kind, channel or pattern>> subscriptions it holds
    quitted,            \* the subscriber connections quit() has been called on
    wire,               \* the commands the latest pub/sub step sent: <<connection, command, arguments>>
    dispatch,           \* the latest message the transport emitted and what the listeners did with it
    tRuns,              \* subscription -> times its teardown function has been run
    tCalled,            \* the subscriptions whose teardown the subscriber has called
    pendingT,           \* the subscriptions whose teardown, called by the subscriber, awaits its unsubscribe
    sCleanups,          \* pub/sub onModuleDestroy: subscription -> state of the teardown promise it started
    sCloses,            \* pub/sub onModuleDestroy: name -> state of the quit() promise of that entry
    nCleared            \* completed runs of the pub/sub onModuleDestroy

msgVars == <<pChannels, pReply, handlers, serverSubs, quitted, wire, dispatch, tRuns, tCalled,
             pendingT, sCleanups, sCloses, nCleared>>
subVars == <<subscriberClients, nDup, cleanupFunctions, sub, ppc, pKind, pName, pClient,
             spc, sQuits, sRet, msgVars>>

\* The context-bound wrapper of RedisService.withClient
\* (src/src/services/redis.service.ts): a Proxy over the service whose get
\* trap rewrites the arguments of every method call.
VARIABLES
    proxy,       \* the latest wrapper made: the name it is bound to and what withClient was called on
    inv          \* the latest call through the wrapper: its arguments and the name its getClient was given

proxyVars == <<proxy, inv>>

\* The @Cacheable method wrapper (src/src/decorators/cacheable.decorator.ts)
\* and the string keys it reads and writes.
VARIABLES
    cacheStore,  \* the store's string keys: cache key -> the reply GET gives for it
    cacheCall    \* the call of the decorated method in progress: its options, locals and outcome

cacheVars == <<cacheStore, cacheCall>>
connVars == <<regVars, subVars, proxyVars, cacheVars>>

storeVars == <<storeVal, storeTtl>>
callVars == <<kind, key, lockId, retryCount, ttlMs, attempt, newTtl>>
outVars == <<reply, lastRet, result, fnOutcome>>
countVars == <<nSet, nDelay, nRelease, nOps, fnRuns>>
ghostVars == <<lost, forceRet>>
lockVars == <<storeVars, pc, callVars, outVars, countVars, ghostVars>>
vars == <<storeVal, storeTtl, pc, kind, key, lockId, retryCount, ttlMs,
          attempt, newTtl, reply, lastRet, result, fnOutcome, nSet, nDelay,
          nRelease, nOps, fnRuns, lost, forceRet, connVars>>

\* ---- the store's commands -----------------------------------------------
\* Each command maps the store to [val, ttl, reply].

\* SET lockKey lockId PX ttl, the NX flag forgotten.
SetPx(val, ttl, lk, id, t) ==
    [val |-> [val EXCEPT ![lk] = id], ttl |-> [ttl EXCEPT ![lk] = t], reply |-> "OK"]

\* SET lockKey lockId NX, the PX ttl forgotten: the key is created without expiry.
SetNx(val, ttl, lk, id, t) ==
    IF val[lk] = NoId
    THEN [val |-> [val EXCEPT ![lk] = id], ttl |-> [ttl EXCEPT ![lk] = NoExpiryTtl],
          reply |-> "OK"]
    ELSE [val |-> val, ttl |-> ttl, reply |-> "nil"]

\* SET lockKey lockId PX ttl NX
SetNxPx(val, ttl, lk, id, t) ==
    IF val[lk] = NoId
    THEN [val |-> [val EXCEPT ![lk] = id], ttl |-> [ttl EXCEPT ![lk] = t], reply |-> "OK"]
    ELSE [val |-> val, ttl |-> ttl, reply |-> "nil"]

\* A release script that deletes the key without comparing its value.
ReleaseAnyOwner(val, ttl, lk, id) ==
    [val |-> [val EXCEPT ![lk] = NoId], ttl |-> [ttl EXCEPT ![lk] = NoKeyTtl],
     reply |-> IF val[lk] # NoId THEN "1" ELSE "0"]

\* A release script that answers 1 to the owner without deleting the key.
ReleaseReportsOnly(val, ttl, lk, id) ==
    [val |-> val, ttl |-> ttl, reply |-> IF val[lk] = id THEN "1" ELSE "0"]

\* RELEASE_LOCK_SCRIPT: if get(KEYS[1]) == ARGV[1] then return del(KEYS[1]) else return 0
ReleaseScript(val, ttl, lk, id) ==
    IF val[lk] = id
    THEN [val |-> [val EXCEPT ![lk] = NoId], ttl |-> [ttl EXCEPT ![lk] = NoKeyTtl],
          reply |-> "1"]
    ELSE [val |-> val, ttl |-> ttl, reply |-> "0"]

\* An extend script that sets the TTL without comparing the key's value.
ExtendAnyOwner(val, ttl, lk, id, t) ==
    IF val[lk] # NoId
    THEN [val |-> val, ttl |-> [ttl EXCEPT ![lk] = t], reply |-> "1"]
    ELSE [val |-> val, ttl |-> ttl, reply |-> "0"]

\* EXTEND_LOCK_SCRIPT: if get(KEYS[1]) == ARGV[1] then return pexpire(KEYS[1], ARGV[2]) else return 0
ExtendScript(val, ttl, lk, id, t) ==
    IF val[lk] = id
    THEN [val |-> val, ttl |-> [ttl EXCEPT ![lk] = t], reply |-> "1"]
    ELSE [val |-> val, ttl |-> ttl, reply |-> "0"]

\* DEL lockKey
Del(val, ttl, lk) ==
    [val |-> [val EXCEPT ![lk] = NoId], ttl |-> [ttl EXCEPT ![lk] = NoKeyTtl],
     reply |-> IF val[lk] # NoId THEN "1" ELSE "0"]

\* A store call under a transport outcome: what the store holds afterwards
\* and what the awaiting caller gets ("Err": the promise rejects).
Transport(val, ttl, run, o) ==
    [val |-> IF o = "fail" THEN val ELSE run.val,
     ttl |-> IF o = "fail" THEN ttl ELSE run.ttl,
     reply |-> IF o = "ok" THEN run.reply ELSE "Err"]

\* ---- the service's decisions ----------------------------------------------
\* tryAcquire taking any reply for success (return result !== undefined).
AcquiredAnyReply(r) == TRUE
\* tryAcquire: return result === 'OK'
Acquired(r) == r = "OK"
\* acquire: for (...; attempt <= retryCount; ...)
MoreAttempts(a, rc) == a <= rc
\* acquire delaying after the last attempt too (attempt <= retryCount).
DelayAfterEveryAttempt(a, rc) == a <= rc
\* acquire going round its loop without the delay between attempts.
NoDelayBeforeRetry(a, rc) == FALSE
\* acquire: if (attempt < retryCount) await this.delay(retryDelayMs)
DelayBeforeRetry(a, rc) == a < rc
\* release comparing the reply with the wrong type (result === '1').
ReleaseNeverTrue(r) == "false"
\* release without its catch: a rejected eval is thrown to the caller.
ReleaseRethrows(r) == IF r = "Err" THEN "throw" ELSE IF r = "1" THEN "true" ELSE "false"
\* release: try { result === 1 ? true : false } catch { return false }
ReleaseReturn(r) == IF r = "Err" THEN "false" ELSE IF r = "1" THEN "true" ELSE "false"
\* extend without its catch: a rejected eval is thrown to the caller.
ExtendRethrows(r) == IF r = "Err" THEN "throw" ELSE IF r = "1" THEN "true" ELSE "false"
\* extend: try { result === 1 ? true : false } catch { return false }
ExtendReturn(r) == IF r = "Err" THEN "false" ELSE IF r = "1" THEN "true" ELSE "false"
\* forceRelease taking any reply of del for a deletion (result >= 0).
ForceReleaseAlwaysTrue(r) == IF r = "Err" THEN "throw" ELSE "true"
\* forceRelease: result = await client.del(lockKey); result > 0 ? true : false
ForceReleaseReturn(r) == IF r = "Err" THEN "throw" ELSE IF r = "1" THEN "true" ELSE "false"
\* withLock: try { return await fn() } finally { await lock.release() }
\* a finally block that throws replaces the pending return or throw.
Finally(outcome, released) == IF released = "throw" THEN "StoreError" ELSE outcome

\* The store holds caller c's lockId at lock key lk.
Holds(c, lk) == lockId[c] # NoId /\ storeVal[lk] = lockId[c]

\* ---- initial state ------------------------------------------------------
LockInit ==
    /\ storeVal = [lk \in LockKeys |-> NoId]
    /\ storeTtl = [lk \in LockKeys |-> NoKeyTtl]
    /\ pc = [c \in Callers |-> "idle"]
    /\ kind = [c \in Callers |-> "none"]
    /\ key = [c \in Callers |-> "r1"]
    /\ lockId = [c \in Callers |-> NoId]
    /\ retryCount = [c \in Callers |-> 0]
    /\ ttlMs = [c \in Callers |-> 0]
    /\ attempt = [c \in Callers |-> 0]
    /\ newTtl = [c \in Callers |-> 0]
    /\ reply = [c \in Callers |-> "none"]
    /\ lastRet = [c \in Callers |-> "none"]
    /\ result = [c \in Callers |-> "none"]
    /\ fnOutcome = [c \in Callers |-> "none"]
    /\ nSet = [c \in Callers |-> 0]
    /\ nDelay = [c \in Callers |-> 0]
    /\ nRelease = [c \in Callers |-> 0]
    /\ nOps = [c \in Callers |-> 0]
    /\ fnRuns = [c \in Callers |-> 0]
    /\ lost = [c \in Callers |-> "no"]
    /\ forceRet = "none"

\* ---- acquire ------------------------------------------------------------
\* acquire(key, options) up to its first await: lockKey, lockId, client, attempt = 0.
AcquireBegin(c, kd, k, rc, t) ==
    /\ pc[c] = "idle"
    /\ pc' = [pc EXCEPT ![c] = "set"]
    /\ kind' = [kind EXCEPT ![c] = kd]
    /\ key' = [key EXCEPT ![c] = k]
    /\ lockId' = [lockId EXCEPT ![c] = generateLockId(c)]
    /\ retryCount' = [retryCount EXCEPT ![c] = rc]
    /\ ttlMs' = [ttlMs EXCEPT ![c] = t]
    /\ attempt' = [attempt EXCEPT ![c] = 0]
    /\ nSet' = [nSet EXCEPT ![c] = 1]
    /\ result' = [result EXCEPT ![c] = "pending"]
    /\ UNCHANGED <<storeVars, newTtl, reply, lastRet, fnOutcome, nDelay, nRelease,
                   nOps, fnRuns, ghostVars, connVars>>

\* A caller calls acquire(k, {retryCount: rc, ttlMs: t}).
CallAcquire(c) ==
    \E k \in Keys, rc \in RetryValues, t \in TtlValues : AcquireBegin(c, "acquire", k, rc, t)

\* A caller calls withLock(k, fn, {retryCount: rc, ttlMs: t}), which calls acquire.
CallWithLock(c) ==
    \E k \in Keys, rc \in RetryValues, t \in TtlValues : AcquireBegin(c, "withLock", k, rc, t)

\* tryAcquire's client.set(lockKey, lockId, 'PX', ttlMs, 'NX') reaches the store (or not).
TryAcquireStore(c) ==
    /\ pc[c] = "set"
    /\ \E o \in Outcomes :
        LET r == Transport(storeVal, storeTtl,
                           SetNxPx(storeVal, storeTtl, LockKey(key[c]), lockId[c], ttlMs[c]), o)
        IN /\ storeVal' = r.val
           /\ storeTtl' = r.ttl
           /\ reply' = [reply EXCEPT ![c] = r.reply]
    /\ pc' = [pc EXCEPT ![c] = "setReply"]
    /\ UNCHANGED <<callVars, lastRet, result, fnOutcome, countVars, ghostVars, connVars>>

\* acquire returns or throws: its locals (options, loop variable) are gone;
\* the handle keeps only client, lockKey and lockId.
AcquireLeaves(c) ==
    /\ retryCount' = [retryCount EXCEPT ![c] = 0]
    /\ ttlMs' = [ttlMs EXCEPT ![c] = 0]
    /\ attempt' = [attempt EXCEPT ![c] = 0]
    /\ nSet' = [nSet EXCEPT ![c] = 0]
    /\ nDelay' = [nDelay EXCEPT ![c] = 0]

\* The set rejected: tryAcquire throws, acquire throws, and so does withLock.
AcquireThrows(c) ==
    /\ pc[c] = "setReply"
    /\ reply[c] = "Err"
    /\ pc' = [pc EXCEPT ![c] = "done"]
    /\ result' = [result EXCEPT ![c] = "StoreError"]
    /\ AcquireLeaves(c)
    /\ UNCHANGED <<storeVars, kind, key, lockId, newTtl, reply, lastRet, fnOutcome,
                   nRelease, nOps, fnRuns, ghostVars, connVars>>

\* The set answered OK: acquire returns the handle; withLock goes on to call fn.
AcquireReturnsHandle(c) ==
    /\ pc[c] = "setReply"
    /\ reply[c] # "Err"
    /\ Acquired(reply[c])
    /\ IF kind[c] = "withLock"
       THEN /\ pc' = [pc EXCEPT ![c] = "inFn"]
            /\ fnRuns' = [fnRuns EXCEPT ![c] = @ + 1]
            /\ UNCHANGED result
       ELSE /\ pc' = [pc EXCEPT ![c] = "held"]
            /\ result' = [result EXCEPT ![c] = "handle"]
            /\ UNCHANGED fnRuns
    /\ AcquireLeaves(c)
    /\ UNCHANGED <<storeVars, kind, key, lockId, newTtl, reply, lastRet, fnOutcome,
                   nRelease, nOps, ghostVars, connVars>>

\* acquire's loop is over: it returns null to its caller.
AcquireNull(c) ==
    /\ pc' = [pc EXCEPT ![c] = "done"]
    /\ result' = [result EXCEPT ![c] = "null"]
    /\ UNCHANGED fnRuns

\* withLock without its null check: fn runs though no lock was acquired.
WithLockRunsAnyway(c) ==
    /\ pc' = [pc EXCEPT ![c] = "inFn"]
    /\ fnRuns' = [fnRuns EXCEPT ![c] = @ + 1]
    /\ UNCHANGED result

\* withLock: if (!lock) throw new Error('Failed to acquire lock for key: ...')
WithLockNotAcquired(c) ==
    /\ pc' = [pc EXCEPT ![c] = "done"]
    /\ result' = [result EXCEPT ![c] = "LockNotAcquired"]
    /\ UNCHANGED fnRuns

\* acquire's attempt++ and loop test with the loop variable at a: try again,
\* or leave the loop and return null.
NextAttempt(c, a) ==
    IF MoreAttempts(a, retryCount[c])
    THEN /\ attempt' = [attempt EXCEPT ![c] = a]
         /\ pc' = [pc EXCEPT ![c] = "set"]
         /\ nSet' = [nSet EXCEPT ![c] = @ + 1]
         /\ UNCHANGED <<retryCount, ttlMs, nDelay, result, fnRuns>>
    ELSE /\ AcquireLeaves(c)
         /\ IF kind[c] = "withLock" THEN WithLockNotAcquired(c) ELSE AcquireNull(c)

\* The set answered nil (key present): delay when attempts remain, else go round the loop.
AcquireDenied(c) ==
    /\ pc[c] = "setReply"
    /\ reply[c] # "Err"
    /\ ~Acquired(reply[c])
    /\ IF DelayBeforeRetry(attempt[c], retryCount[c])
       THEN /\ pc' = [pc EXCEPT ![c] = "delay"]
            /\ nDelay' = [nDelay EXCEPT ![c] = @ + 1]
            /\ UNCHANGED <<retryCount, ttlMs, attempt, nSet, result, fnRuns>>
       ELSE NextAttempt(c, attempt[c] + 1)
    /\ UNCHANGED <<storeVars, kind, key, lockId, newTtl, reply, lastRet, fnOutcome,
                   nRelease, nOps, ghostVars, connVars>>

\* The retry delay elapsed: attempt++ and the loop test.
DelayElapsed(c) ==
    /\ pc[c] = "delay"
    /\ NextAttempt(c, attempt[c] + 1)
    /\ UNCHANGED <<storeVars, kind, key, lockId, newTtl, reply, lastRet, fnOutcome,
                   nRelease, nOps, ghostVars, connVars>>

\* ---- withLock's function --------------------------------------------------
\* fn() settles, and the finally block calls lock.release(): eval goes out.
FnEnds(c, outcome) ==
    /\ pc[c] = "inFn"
    /\ fnOutcome' = [fnOutcome EXCEPT ![c] = outcome]
    /\ pc' = [pc EXCEPT ![c] = "rel"]
    /\ nRelease' = [nRelease EXCEPT ![c] = @ + 1]
    /\ UNCHANGED <<storeVars, callVars, reply, lastRet, result, nSet, nDelay, nOps,
                   fnRuns, ghostVars, connVars>>

\* The function passed to withLock returns a value.
FnReturns(c) == FnEnds(c, "value")

\* withLock with release() after the call instead of in a finally block: a
\* throwing fn leaves withLock at once.
FnThrowsPastRelease(c) ==
    /\ pc[c] = "inFn"
    /\ fnOutcome' = [fnOutcome EXCEPT ![c] = "FnError"]
    /\ pc' = [pc EXCEPT ![c] = "done"]
    /\ result' = [result EXCEPT ![c] = "FnError"]
    /\ UNCHANGED <<storeVars, callVars, reply, lastRet, countVars, ghostVars, connVars>>

\* The function passed to withLock throws.
FnThrows(c) == FnEnds(c, "FnError")

\* ---- the handle's release() and extend() --------------------------------
\* The holder of a handle returned by acquire calls handle.release().
HandleRelease(c) ==
    /\ pc[c] = "held"
    /\ nOps[c] < MaxHandleOps
    /\ pc' = [pc EXCEPT ![c] = "rel"]
    /\ nOps' = [nOps EXCEPT ![c] = @ + 1]
    /\ nRelease' = [nRelease EXCEPT ![c] = @ + 1]
    /\ reply' = [reply EXCEPT ![c] = "none"]
    /\ lastRet' = [lastRet EXCEPT ![c] = "none"]
    /\ UNCHANGED <<storeVars, callVars, result, fnOutcome, nSet, nDelay, fnRuns,
                   ghostVars, connVars>>

\* The holder of a handle returned by acquire calls handle.extend(t).
HandleExtend(c) ==
    /\ pc[c] = "held"
    /\ nOps[c] < MaxHandleOps
    /\ \E t \in TtlValues : newTtl' = [newTtl EXCEPT ![c] = t]
    /\ pc' = [pc EXCEPT ![c] = "ext"]
    /\ nOps' = [nOps EXCEPT ![c] = @ + 1]
    /\ reply' = [reply EXCEPT ![c] = "none"]
    /\ lastRet' = [lastRet EXCEPT ![c] = "none"]
    /\ UNCHANGED <<storeVars, kind, key, lockId, retryCount, ttlMs, attempt, result,
                   fnOutcome, nSet, nDelay, nRelease, fnRuns, ghostVars, connVars>>

\* The holder lets go of the handle (it is done with it, or it crashed): no
\* release() or extend() is called on it any more.
HandleDrop(c) ==
    /\ pc[c] = "held"
    /\ pc' = [pc EXCEPT ![c] = "done"]
    /\ reply' = [reply EXCEPT ![c] = "none"]
    /\ lastRet' = [lastRet EXCEPT ![c] = "none"]
    /\ nOps' = [nOps EXCEPT ![c] = 0]
    /\ nRelease' = [nRelease EXCEPT ![c] = 0]
    /\ UNCHANGED <<storeVars, callVars, result, fnOutcome, nSet, nDelay, fnRuns,
                   ghostVars, connVars>>

\* release's eval(RELEASE_LOCK_SCRIPT, 1, lockKey, lockId) reaches the store (or not).
ReleaseStore(c) ==
    /\ pc[c] = "rel"
    /\ \E o \in Outcomes :
        LET r == Transport(storeVal, storeTtl,
                           ReleaseScript(storeVal, storeTtl, LockKey(key[c]), lockId[c]), o)
        IN /\ storeVal' = r.val
           /\ storeTtl' = r.ttl
           /\ reply' = [reply EXCEPT ![c] = r.reply]
    /\ pc' = [pc EXCEPT ![c] = "relReply"]
    /\ UNCHANGED <<callVars, lastRet, result, fnOutcome, countVars, ghostVars, connVars>>

\* release resumes and returns; inside withLock the finally block ends and
\* withLock settles with fn's outcome.
ReleaseResumes(c) ==
    /\ pc[c] = "relReply"
    /\ lastRet' = [lastRet EXCEPT ![c] = ReleaseReturn(reply[c])]
    /\ IF kind[c] = "withLock"
       THEN /\ pc' = [pc EXCEPT ![c] = "done"]
            /\ result' = [result EXCEPT ![c] = Finally(fnOutcome[c], ReleaseReturn(reply[c]))]
       ELSE /\ pc' = [pc EXCEPT ![c] = "held"]
            /\ UNCHANGED result
    /\ UNCHANGED <<storeVars, callVars, reply, fnOutcome, countVars, ghostVars, connVars>>

\* extend's eval(EXTEND_LOCK_SCRIPT, 1, lockKey, lockId, ttlMs) reaches the store (or not).
ExtendStore(c) ==
    /\ pc[c] = "ext"
    /\ \E o \in Outcomes :
        LET r == Transport(storeVal, storeTtl,
                           ExtendScript(storeVal, storeTtl, LockKey(key[c]), lockId[c], newTtl[c]), o)
        IN /\ storeVal' = r.val
           /\ storeTtl' = r.ttl
           /\ reply' = [reply EXCEPT ![c] = r.reply]
    /\ pc' = [pc EXCEPT ![c] = "extReply"]
    /\ UNCHANGED <<callVars, lastRet, result, fnOutcome, countVars, ghostVars, connVars>>

\* extend resumes and returns.
ExtendResumes(c) ==
    /\ pc[c] = "extReply"
    /\ lastRet' = [lastRet EXCEPT ![c] = ExtendReturn(reply[c])]
    /\ pc' = [pc EXCEPT ![c] = "held"]
    /\ newTtl' = [newTtl EXCEPT ![c] = 0]
    /\ UNCHANGED <<storeVars, kind, key, lockId, retryCount, ttlMs, attempt, reply,
                   result, fnOutcome, countVars, ghostVars, connVars>>

\* ---- forceRelease -------------------------------------------------------
\* forceRelease(k): client.del(lockKey); true when result > 0; a rejected del throws.
ForceRelease(k) ==
    \E o \in Outcomes :
        LET r == Transport(storeVal, storeTtl, Del(storeVal, storeTtl, LockKey(k)), o)
        IN /\ storeVal' = r.val
           /\ storeTtl' = r.ttl
           /\ lost' = [c \in Callers |->
                        IF o # "fail" /\ Holds(c, LockKey(k)) THEN "forced" ELSE lost[c]]
           /\ UNCHANGED <<pc, callVars, outVars, countVars, forceRet, connVars>>

\* forceRelease(k) from a caller that looks at what it returns.
ForceReleaseReturns(k) ==
    \E o \in Outcomes :
        LET r == Transport(storeVal, storeTtl, Del(storeVal, storeTtl, LockKey(k)), o)
        IN /\ storeVal' = r.val
           /\ storeTtl' = r.ttl
           /\ lost' = [c \in Callers |->
                        IF o # "fail" /\ Holds(c, LockKey(k)) THEN "forced" ELSE lost[c]]
           /\ forceRet' = ForceReleaseReturn(r.reply)
           /\ UNCHANGED <<pc, callVars, outVars, countVars, connVars>>

\* ---- the store's clock --------------------------------------------------
\* One tick of the store's clock: every key's remaining TTL goes down by one,
\* and a key whose TTL runs out is removed (PX ttlMs: the lock is
\* automatically released after this time).
Tick ==
    /\ \E lk \in LockKeys : storeVal[lk] # NoId
    /\ storeTtl' = [lk \in LockKeys |->
                      IF storeVal[lk] = NoId \/ storeTtl[lk] = 1 THEN NoKeyTtl
                      ELSE storeTtl[lk] - 1]
    /\ storeVal' = [lk \in LockKeys |->
                      IF storeTtl[lk] = 1 THEN NoId ELSE storeVal[lk]]
    /\ lost' = [c \in Callers |->
                 IF \E lk \in LockKeys : storeTtl[lk] = 1 /\ Holds(c, lk) THEN "expired" ELSE lost[c]]
    /\ UNCHANGED <<pc, callVars, outVars, countVars, forceRet, connVars>>

\* ---- the connection registry ----------------------------------------------
\* protected readonly clients = new Map<string, Cluster | Redis>()
EmptyMap == [n \in Names |-> NoClient]
\* The registry after the module registered the default connection.
DefaultRegistered == [n \in Names |-> IF n = DEFAULT_REDIS_NAME THEN "A" ELSE NoClient]

\* No message has been emitted yet.
NoDispatch == [client |-> NoSubscriber, kind |-> "none", topic |-> "none", invoked |-> <<>>,
               threw |-> {}, escaped |-> FALSE, before |-> {}]

\* No wrapper has been made, and no call has gone through one.
NoProxy == [name |-> "none", asked |-> "none", from |-> "none"]
NoInvocation == [prop |-> "none", args |-> <<>>, passed |-> <<>>, bound |-> "none",
                 asked |-> "none", resolved |-> "none"]

\* ---- the values of the @Cacheable wrapper ----------------------------------
\* Text is a sequence of characters. A JavaScript value is [t, v]: its type
\* and, for a string, its characters.
Quote == "\""
NullText == <<"n", "u", "l", "l">>
JsString(s) == [t |-> "string", v |-> s]
JsNull == [t |-> "null", v |-> <<>>]
JsUndefined == [t |-> "undefined", v |-> <<>>]
JsNaN == [t |-> "NaN", v |-> <<>>]
\* An object that refers to itself.
JsCircular == [t |-> "circular", v |-> <<>>]
\* What the decorated method may return.
MethodResults == {JsString(<<"o", "k">>), JsNull, JsUndefined, JsNaN, JsCircular}

\* JSON.stringify(value): a text, undefined, or a TypeError.
JSONStringify(value) ==
    CASE value.t = "string" -> [threw |-> FALSE, undefined |-> FALSE,
                                text |-> <<Quote>> \o value.v \o <<Quote>>]
      [] value.t \in {"null", "NaN"} -> [threw |-> FALSE, undefined |-> FALSE, text |-> NullText]
      [] value.t = "undefined" -> [threw |-> FALSE, undefined |-> TRUE, text |-> <<>>]
      [] OTHER -> [threw |-> TRUE, undefined |-> FALSE, text |-> <<>>]

\* JSON.parse(text) for the texts of this model: the literal null, a quoted
\* string, and a SyntaxError for anything else (the empty text included).
JSONParse(text) ==
    IF text = NullText THEN [threw |-> FALSE, value |-> JsNull]
    ELSE IF /\ Len(text) >= 2
            /\ text[1] = Quote
            /\ text[Len(text)] = Quote
            /\ \A i \in 2..(Len(text) - 1) : text[i] # Quote
         THEN [threw |-> FALSE, value |-> JsString(SubSeq(text, 2, Len(text) - 1))]
         ELSE [threw |-> TRUE, value |-> JsUndefined]

\* The reply of GET: null for a missing key, else the key's text.
NullReply == [null |-> TRUE, text |-> <<>>]
Bulk(text) == [null |-> FALSE, text |-> text]

\* const { clientName = 'default', prefix = 'cache:', ttl, unless } = options
CachePrefix == "cache:"
\* @Cacheable({ key: 'user:{{0}}' }), the template cut at its placeholder.
KeyTemplate == <<"user:", "{{0}}">>
\* The argument lists the decorated method is called with.
CacheArgs == {<<"1">>, <<"2">>}
\* The {{0}} replacement of generateCacheKey: String(args[0]), '' when undefined.
generateCacheKey(keyConfig, args) ==
    [i \in 1..Len(keyConfig) |->
        IF keyConfig[i] = "{{0}}" THEN (IF Len(args) >= 1 THEN args[1] ELSE "")
        ELSE keyConfig[i]]
\* const cacheKey = prefix + generateCacheKey(options.key, args)
CacheKey(args) == <<CachePrefix>> \o generateCacheKey(KeyTemplate, args)
CacheKeys == {CacheKey(args) : args \in CacheArgs}
NoCacheKey == <<>>

\* options.ttl: 0 for a ttl left out (both fail if (ttl)), or the seconds given.
CacheTtl == 300
TtlOptions == {0, CacheTtl}
\* options.unless: left out, or (result) => result === null.
UnlessOptions == {"none", "isNull"}
\* An unless option that is never consulted.
UnlessNever(unless, value) == FALSE
\* unless && unless(result)
UnlessHolds(unless, value) == unless = "isNull" /\ value = JsNull

\* No command was sent, no reply was read, nothing was returned.
NoCommand == [cmd |-> "none", key |-> NoCacheKey, value |-> <<>>, undefined |-> FALSE, ttl |-> 0]
NoRead == [state |-> "none", reply |-> NullReply]
NoReturn == [state |-> "none", value |-> JsUndefined]
\* No decorated method has been called.
NoCacheCall == [pc |-> "idle", redisService |-> FALSE, ttl |-> 0, unless |-> "none",
                cacheKey |-> NoCacheKey, cached |-> NoRead, runs |-> 0,
                result |-> NoReturn, sent |-> NoCommand, ret |-> NoReturn]

\* The registry holding the map reg, no call in flight.
ConnInit(reg) ==
    /\ clients = reg
    /\ registered = reg
    /\ got = [name |-> "none", threw |-> "none", clientName |-> "none", client |-> NoClient]
    /\ rpc = [m \in Removers |-> "idle"]
    /\ rName = [m \in Removers |-> "none"]
    /\ rClient = [m \in Removers |-> NoClient]
    /\ rQuit = [m \in Removers |-> "none"]
    /\ rRet = [m \in Removers |-> "none"]
    /\ dpc = "idle"
    /\ dQuits = [n \in Names |-> "none"]
    /\ dRet = "none"
    /\ subscriberClients = [n \in Names |-> NoSubscriber]
    /\ nDup = [n \in Names |-> 0]
    /\ cleanupFunctions = <<>>
    /\ sub = [op |-> "none", name |-> "none", threw |-> "none", client |-> NoSubscriber,
              ret |-> "none"]
    /\ ppc = [p \in PubSubCallers |-> "idle"]
    /\ pKind = [p \in PubSubCallers |-> "none"]
    /\ pName = [p \in PubSubCallers |-> "none"]
    /\ pClient = [p \in PubSubCallers |-> NoSubscriber]
    /\ spc = "idle"
    /\ sQuits = [n \in Names |-> NoSubscriber]
    /\ sRet = "none"
    /\ pChannels = [p \in PubSubCallers |-> {}]
    /\ pReply = [p \in PubSubCallers |-> "none"]
    /\ handlers = <<>>
    /\ serverSubs = {}
    /\ quitted = {}
    /\ wire = {}
    /\ dispatch = NoDispatch
    /\ tRuns = [i \in SubIds |-> 0]
    /\ tCalled = {}
    /\ pendingT = {}
    /\ sCleanups = [i \in SubIds |-> "none"]
    /\ sCloses = [n \in Names |-> "none"]
    /\ nCleared = 0
    /\ proxy = NoProxy
    /\ inv = NoInvocation
    /\ cacheStore = [k \in CacheKeys |-> NullReply]
    /\ cacheCall = NoCacheCall

\* addClient keeping the client a name already has (if (!this.clients.has(name))).
MapSetIfAbsent(map, n, c) == IF map[n] = NoClient THEN [map EXCEPT ![n] = c] ELSE map
\* this.clients.set(name, client)
MapSet(map, n, c) == [map EXCEPT ![n] = c]
\* this.clients.delete(name)
MapDelete(map, n) == [map EXCEPT ![n] = NoClient]

\* getClient falling back to the default connection
\* (this.clients.get(name) ?? this.clients.get(DEFAULT_REDIS_NAME)).
GetClientOrDefault(map, n) ==
    LET c == IF map[n] # NoClient THEN map[n] ELSE map[DEFAULT_REDIS_NAME]
    IN IF c = NoClient
       THEN [name |-> n, threw |-> "RedisClientNotFoundError", clientName |-> n, client |-> NoClient]
       ELSE [name |-> n, threw |-> "none", clientName |-> "none", client |-> c]
\* getClient(name): client = this.clients.get(name);
\* if (!client) throw new RedisClientNotFoundError(name); return client
GetClient(map, n) ==
    IF map[n] = NoClient
    THEN [name |-> n, threw |-> "RedisClientNotFoundError", clientName |-> n, client |-> NoClient]
    ELSE [name |-> n, threw |-> "none", clientName |-> "none", client |-> map[n]]

\* removeClient whose catch block forgets the delete.
RemoveDeletesOnSuccess(settled) == settled = "fulfilled"
\* removeClient: try { await client.quit(); this.clients.delete(name) }
\* catch { this.clients.delete(name) }
RemoveDeletes(settled) == TRUE
\* removeClient: return true, in the try block and in the catch block.
RemoveReturn(settled) == "true"

\* onModuleDestroy without the .catch on each quit(): a rejection stays one.
QuitUncaught(settled) == settled
\* client.quit().catch((err) => { this.logger.error(...) }): the rejection is
\* logged and the wrapped promise is fulfilled.
QuitCaught(settled) == IF settled = "pending" THEN "pending" ELSE "fulfilled"
\* closePromises = Promise.all(wrapped quits): rejected as soon as one is,
\* fulfilled when all are (at once for an empty registry), pending otherwise.
CloseSettled(q) ==
    IF \E n \in Names : q[n] # "none" /\ QuitCaught(q[n]) = "rejected" THEN "rejected"
    ELSE IF \E n \in Names : q[n] # "none" /\ QuitCaught(q[n]) = "pending" THEN "pending"
    ELSE "fulfilled"
\* onModuleDestroy with a catch block that rethrows every error.
RaceRethrows(err) == "throw"
\* catch (err) { if (err instanceof RedisTimeoutError) warn; else throw err }
RaceCaught(err) == IF err = "RedisTimeoutError" THEN "proceed" ELSE "throw"

\* addClient(name, client)
AddClient(n, c) ==
    /\ clients' = MapSet(clients, n, c)
    /\ registered' = [registered EXCEPT ![n] = c]
    /\ UNCHANGED <<got, rpc, rName, rClient, rQuit, rRet, dpc, dQuits, dRet, lockVars, proxyVars, cacheVars, subVars>>

\* getClient(name), from any caller.
GetClientCall(n) ==
    /\ got' = GetClient(clients, n)
    /\ UNCHANGED <<clients, registered, rpc, rName, rClient, rQuit, rRet, dpc, dQuits, dRet,
                   lockVars, proxyVars, cacheVars, subVars>>

\* removeClient(name) up to its await: the lookup, then return false, or
\* client.quit() is called and awaited.
RemoveClientBegin(m, n) ==
    /\ rpc[m] = "idle"
    /\ rName' = [rName EXCEPT ![m] = n]
    /\ rQuit' = [rQuit EXCEPT ![m] = "none"]
    /\ IF clients[n] = NoClient
       THEN /\ rRet' = [rRet EXCEPT ![m] = "false"]
            /\ rClient' = [rClient EXCEPT ![m] = NoClient]
            /\ UNCHANGED rpc
       ELSE /\ rRet' = [rRet EXCEPT ![m] = "none"]
            /\ rClient' = [rClient EXCEPT ![m] = clients[n]]
            /\ rpc' = [rpc EXCEPT ![m] = "quitting"]
    /\ UNCHANGED <<clients, registered, got, dpc, dQuits, dRet, lockVars, proxyVars, cacheVars, subVars>>

\* The awaited quit() settles and removeClient resumes, in its try block or
\* in its catch block: the name is deleted and true is returned.
RemoveClientResumes(m, settled) ==
    /\ rpc[m] = "quitting"
    /\ rQuit' = [rQuit EXCEPT ![m] = settled]
    /\ clients' = IF RemoveDeletes(settled) THEN MapDelete(clients, rName[m]) ELSE clients
    /\ registered' = [registered EXCEPT ![rName[m]] = NoClient]
    /\ rRet' = [rRet EXCEPT ![m] = RemoveReturn(settled)]
    /\ rpc' = [rpc EXCEPT ![m] = "idle"]
    /\ UNCHANGED <<got, rName, rClient, dpc, dQuits, dRet, lockVars, proxyVars, cacheVars, subVars>>

\* onModuleDestroy up to its await: quit() is called on every client of the
\* map, closePromises and the timeout are set racing.
DestroyBegin ==
    /\ dpc = "idle"
    /\ dQuits' = [n \in Names |-> IF clients[n] # NoClient THEN "pending" ELSE "none"]
    /\ dpc' = "racing"
    /\ UNCHANGED <<clients, registered, got, rpc, rName, rClient, rQuit, rRet, dRet, lockVars, proxyVars, cacheVars, subVars>>

\* One of the quit() promises of onModuleDestroy settles.
DestroyQuitSettles(n, settled) ==
    /\ dpc = "racing"
    /\ dQuits[n] = "pending"
    /\ dQuits' = [dQuits EXCEPT ![n] = settled]
    /\ UNCHANGED <<clients, registered, got, rpc, rName, rClient, rQuit, rRet, dpc, dRet,
                   lockVars, proxyVars, cacheVars, subVars>>

\* onModuleDestroy past its await with the error err ("none": the race was
\* fulfilled): the catch block, then this.clients.clear().
DestroyResumes(err) ==
    /\ dpc' = "done"
    /\ IF err = "none" \/ RaceCaught(err) = "proceed"
       THEN /\ clients' = EmptyMap
            /\ registered' = EmptyMap
            /\ dRet' = "ok"
       ELSE /\ dRet' = "throw"
            /\ UNCHANGED <<clients, registered>>
    /\ UNCHANGED <<got, rpc, rName, rClient, rQuit, rRet, dQuits, lockVars, proxyVars, cacheVars, subVars>>

\* closePromises settles first: every quit() has settled (or one rejection
\* got through).
DestroyCloseWins ==
    /\ dpc = "racing"
    /\ CloseSettled(dQuits) # "pending"
    /\ DestroyResumes(IF CloseSettled(dQuits) = "fulfilled" THEN "none" ELSE "QuitError")

\* onModuleDestroy awaiting closePromises alone: no timeout ever fires.
DestroyAwaitsClosesOnly == FALSE
\* The timeout fires first: timeoutPromise rejects with RedisTimeoutError.
DestroyTimeout ==
    /\ dpc = "racing"
    /\ CloseSettled(dQuits) = "pending"
    /\ DestroyResumes("RedisTimeoutError")

RegNext ==
    \/ \E n \in Names, c \in Clients : AddClient(n, c)
    \/ \E n \in Names : GetClientCall(n)
    \/ \E m \in Removers, n \in Names : RemoveClientBegin(m, n)
    \/ \E m \in Removers, s \in Settled : RemoveClientResumes(m, s)
    \/ DestroyBegin
    \/ \E n \in Names, s \in Settled : DestroyQuitSettles(n, s)
    \/ DestroyCloseWins
    \/ DestroyTimeout

\* The registry as constructed (an empty map), the lock service not in use.
RegInit == LockInit /\ ConnInit(EmptyMap)
RegSpec == RegInit /\ [][RegNext]_vars

\* The registry with one client instance per name: a name is registered,
\* removed and registered again with the same instance, so the client a
\* name holds is the one any earlier quit() under that name was called on.
OwnClient(n) == IF n = DEFAULT_REDIS_NAME THEN "A" ELSE "B"
RaceNext ==
    \/ \E n \in Names : AddClient(n, OwnClient(n))
    \/ \E n \in Names : GetClientCall(n)
    \/ \E m \in Removers, n \in Names : RemoveClientBegin(m, n)
    \/ \E m \in Removers, s \in Settled : RemoveClientResumes(m, s)
    \/ DestroyBegin
    \/ \E n \in Names, s \in Settled : DestroyQuitSettles(n, s)
    \/ DestroyCloseWins
    \/ DestroyTimeout
RaceSpec == RegInit /\ [][RaceNext]_vars

\* ---- the pub/sub service ---------------------------------------------------
\* getSubscriberClient without the has() test: every call duplicates.
SubscriberNeverHit(table, n) == FALSE
\* getSubscriberClient: if (this.subscriberClients.has(clientName))
SubscriberHit(table, n) == table[n] # NoSubscriber

\* getSubscriberClient(name) on the table and the main clients, k duplicates
\* of the name made before: the outcome, the client returned and the table
\* afterwards.
GetSubscriberClient(table, mains, n, k) ==
    IF SubscriberHit(table, n)
    THEN [threw |-> "none", client |-> table[n], table |-> table, dup |-> 0]
    ELSE IF mains[n] = NoClient
    THEN [threw |-> "MainClientNotFound", client |-> NoSubscriber, table |-> table, dup |-> 0]
    ELSE [threw |-> "none", client |-> Duplicate(mains[n], k + 1),
          table |-> [table EXCEPT ![n] = Duplicate(mains[n], k + 1)], dup |-> 1]

\* A publisher that gets a connection of its own, duplicated from the main one
\* (what the unused publisherClients map was declared for).
GetPublisherDuplicate(mains, n) ==
    IF mains[n] = NoClient
    THEN [threw |-> "ClientNotFound", client |-> NoSubscriber]
    ELSE [threw |-> "none", client |-> Duplicate(mains[n], 1)]
\* getPublisherClient(name): the main client, or Error('Redis client ... not found').
GetPublisherClient(mains, n) ==
    IF mains[n] = NoClient
    THEN [threw |-> "ClientNotFound", client |-> NoSubscriber]
    ELSE [threw |-> "none", client |-> Conn(mains[n])]

\* ---- the store and the transport of a subscriber connection ---------------
\* The store runs SUBSCRIBE / PSUBSCRIBE topics for connection cn, unless cn
\* has been closed.
ServerSubscribe(held, closed, cn, kd, topics) ==
    IF cn \in closed THEN held ELSE held \cup {<<cn, kd, t>> : t \in topics}
\* The store runs UNSUBSCRIBE / PUNSUBSCRIBE topics for connection cn: the
\* connection no longer receives them, whichever call subscribed them.
ServerUnsubscribe(held, closed, cn, kd, topics) ==
    IF cn \in closed THEN held ELSE held \ {<<cn, kd, t>> : t \in topics}
\* The store closes the connections cns and forgets their subscriptions.
ServerQuit(held, cns) == {e \in held : e[1] \notin cns}

\* client.on(event, handler)
On(hs, h) == Append(hs, h)
\* A teardown that drops every listener of the event
\* (client.removeAllListeners(event)).
OffAllListeners(hs, h) == SelectSeq(hs, LAMBDA g : g.client # h.client \/ g.kind # h.kind)
\* client.off(event, handler)
Off(hs, h) == SelectSeq(hs, LAMBDA g : g.id # h.id)
\* The listeners the teardowns of ids leave attached.
RECURSIVE OffEach(_, _, _)
OffEach(hs, cleanups, i) ==
    IF i > Len(cleanups) THEN hs ELSE OffEach(Off(hs, cleanups[i]), cleanups, i + 1)
\* What the store holds after it ran the unsubscribe of every teardown.
RECURSIVE UnsubscribeEach(_, _, _, _)
UnsubscribeEach(held, closed, cleanups, i) ==
    IF i > Len(cleanups) THEN held
    ELSE UnsubscribeEach(ServerUnsubscribe(held, closed, cleanups[i].client,
                                           cleanups[i].kind, cleanups[i].channels),
                         closed, cleanups, i + 1)
\* The command a teardown sends.
CleanupCommand(c) == <<c.client, Unsubscribe(c.kind), c.channels>>

\* A callback called with no try around it: its exception leaves the listener.
CallbackUncaught(throws) == IF throws THEN "threw" ELSE "returned"
\* try { callback(...) } catch (error) { this.logger.error(...) }
TryCallback(throws) == IF throws THEN "caught" ELSE "returned"
\* messageHandler without the includes() test.
MessageHandlerUnfiltered(channelArray, channel, throws) == TryCallback(throws)
\* messageHandler: if (channelArray.includes(channel)) { try { callback } catch }
MessageHandler(channelArray, channel, throws) ==
    IF channel \in channelArray THEN TryCallback(throws) ELSE "skipped"
\* pmessageHandler: try { callback(pattern, channel, message) } catch; the
\* pattern is not tested against patternArray.
PMessageHandler(patternArray, pattern, throws) == TryCallback(throws)

\* The transport emits one 'message' (kd = "subscribe") or 'pmessage' event
\* for topic t on connection cn: the listeners of that event on that
\* connection run in on() order, the callbacks of the subscriptions in bad
\* throw, and an exception that leaves a listener ends the emit.  The
\* outcome names the listeners invoked, in order, the callbacks that threw,
\* whether an exception left the emit, and the callbacks that threw in the
\* emit directly before this one.
RECURSIVE EmitFrom(_, _, _, _, _, _)
EmitFrom(hs, cn, kd, t, bad, acc) ==
    IF hs = <<>> THEN acc
    ELSE LET h == Head(hs)
             o == IF kd = "subscribe"
                  THEN MessageHandler(h.channels, t, h.id \in bad)
                  ELSE PMessageHandler(h.channels, t, h.id \in bad)
             next == [acc EXCEPT
                        !.invoked = IF o = "skipped" THEN @ ELSE Append(@, h.id),
                        !.threw = IF o \in {"caught", "threw"} THEN @ \cup {h.id} ELSE @,
                        !.escaped = (o = "threw")]
         IN IF h.client # cn \/ h.kind # kd THEN EmitFrom(Tail(hs), cn, kd, t, bad, acc)
            ELSE IF o = "threw" THEN next
            ELSE EmitFrom(Tail(hs), cn, kd, t, bad, next)
Emit(hs, cn, kd, t, bad, before) ==
    EmitFrom(hs, cn, kd, t, bad,
             [client |-> cn, kind |-> kd, topic |-> t, invoked |-> <<>>, threw |-> {},
              escaped |-> FALSE, before |-> before])

\* Promise.all over the promises of q that were started: rejected as soon as
\* one is, fulfilled when all are (at once when there is none).
AllSettled(q) ==
    IF \E x \in DOMAIN q : q[x] = "rejected" THEN "rejected"
    ELSE IF \E x \in DOMAIN q : q[x] = "pending" THEN "pending"
    ELSE "fulfilled"
\* The shutdown without the .catch on each teardown.
CleanupUncaught(settled) == settled
\* fn().catch(() => {}): a teardown's rejection is swallowed.
CleanupCaught(settled) == IF settled = "rejected" THEN "fulfilled" ELSE settled
\* The shutdown calling quit() without waiting for the teardowns.
CleanupsNotAwaited(q) == "fulfilled"
\* await Promise.all(this.cleanupFunctions.map((fn) => fn().catch(() => {})))
CleanupsSettled(q) == AllSettled([i \in DOMAIN q |-> CleanupCaught(q[i])])
\* await Promise.all(closePromises), each quit() with its catch.
ClosesSettled(q) == AllSettled([n \in DOMAIN q |-> QuitCaught(q[n])])

\* What a pub/sub call shows of itself: its name and arguments, the error it
\* threw, the connection it got and what it returned ("client", "sent",
\* "cleanup"; "awaiting" while its command is in flight).
Shown(op, n, threw, client, ret) ==
    [op |-> op, name |-> n, threw |-> threw, client |-> client,
     ret |-> IF threw # "none" THEN "throw" ELSE ret]

callLocals == <<ppc, pKind, pName, pClient, pChannels, pReply>>
teardownVars == <<tRuns, tCalled, pendingT>>
destroyVars == <<spc, sQuits, sRet, sCleanups, sCloses, nCleared>>

\* getSubscriberClient(name), from any caller.
GetSubscriberClientCall(n) ==
    /\ dispatch' = NoDispatch
    /\ LET r == GetSubscriberClient(subscriberClients, clients, n, nDup[n])
       IN /\ sub' = Shown("getSubscriberClient", n, r.threw, r.client, "client")
          /\ subscriberClients' = r.table
          /\ nDup' = [nDup EXCEPT ![n] = @ + r.dup]
    /\ wire' = {}
    /\ UNCHANGED <<cleanupFunctions, callLocals, handlers, serverSubs, quitted, teardownVars, destroyVars, regVars, lockVars, proxyVars, cacheVars>>

\* publish(channel, message, name): the main client is looked up and the
\* publish command goes out on it.
Publish(n, ch) ==
    /\ dispatch' = NoDispatch
    /\ LET r == GetPublisherClient(clients, n)
       IN /\ sub' = Shown("publish", n, r.threw, r.client, "sent")
          /\ wire' = IF r.threw # "none" THEN {} ELSE {<<r.client, "publish", {ch}>>}
    /\ UNCHANGED <<subscriberClients, nDup, cleanupFunctions, callLocals, handlers,
                   serverSubs, quitted, teardownVars, destroyVars, regVars,
                   lockVars, proxyVars, cacheVars>>

\* subscribe(channels, callback, name) or psubscribe(patterns, callback, name)
\* up to its await: getSubscriberClient, which may throw, then the subscribe
\* command goes out on the subscriber connection.  The command reaches the
\* store, which runs it (a connection's commands run in the order sent) and
\* replies, or the connection rejects it: it is closed, or it breaks and the
\* store forgets what the command subscribed.
SubscribeBegin(p, kd, n, topics, o) ==
    /\ ppc[p] = "idle"
    /\ Len(cleanupFunctions) + Cardinality({q \in PubSubCallers : ppc[q] = "subscribing"})
            < MaxSubscribes
    /\ LET r == GetSubscriberClient(subscriberClients, clients, n, nDup[n])
       IN /\ sub' = Shown(kd, n, r.threw, r.client, "awaiting")
          /\ subscriberClients' = r.table
          /\ nDup' = [nDup EXCEPT ![n] = @ + r.dup]
          /\ o = "fulfilled" => r.client \notin quitted
          /\ IF r.threw # "none"
             THEN /\ wire' = {}
                  /\ UNCHANGED <<callLocals, serverSubs>>
             ELSE /\ ppc' = [ppc EXCEPT ![p] = "subscribing"]
                  /\ pReply' = [pReply EXCEPT ![p] = o]
                  /\ pKind' = [pKind EXCEPT ![p] = kd]
                  /\ pName' = [pName EXCEPT ![p] = n]
                  /\ pClient' = [pClient EXCEPT ![p] = r.client]
                  /\ pChannels' = [pChannels EXCEPT ![p] = topics]
                  /\ wire' = {<<r.client, kd, topics>>}
                  /\ serverSubs' = IF o = "fulfilled"
                                   THEN ServerSubscribe(serverSubs, quitted, r.client, kd, topics)
                                   ELSE serverSubs
    /\ dispatch' = NoDispatch
    /\ UNCHANGED <<cleanupFunctions, handlers, quitted, teardownVars, destroyVars,
                   regVars, lockVars, proxyVars, cacheVars>>

\* The awaited subscribe / psubscribe command settles: fulfilled, the handler
\* is attached and the teardown is pushed and returned; rejected, the call
\* throws.  Either way the call's locals are gone.
SubscribeResumes(p, settled) ==
    /\ dispatch' = NoDispatch
    /\ ppc[p] = "subscribing"
    /\ settled = pReply[p]
    /\ pReply' = [pReply EXCEPT ![p] = "none"]
    /\ ppc' = [ppc EXCEPT ![p] = "idle"]
    /\ pKind' = [pKind EXCEPT ![p] = "none"]
    /\ pName' = [pName EXCEPT ![p] = "none"]
    /\ pClient' = [pClient EXCEPT ![p] = NoSubscriber]
    /\ pChannels' = [pChannels EXCEPT ![p] = {}]
    /\ wire' = {}
    /\ IF settled = "fulfilled"
       THEN LET h == [id |-> Len(cleanupFunctions) + 1, kind |-> pKind[p],
                      client |-> pClient[p], channels |-> pChannels[p]]
            IN /\ handlers' = On(handlers, h)
               /\ cleanupFunctions' = Append(cleanupFunctions, h)
               /\ sub' = Shown(pKind[p], pName[p], "none", pClient[p], "cleanup")
       ELSE /\ sub' = Shown(pKind[p], pName[p], "CommandError", pClient[p], "cleanup")
            /\ UNCHANGED <<cleanupFunctions, handlers>>
    /\ UNCHANGED <<subscriberClients, nDup, serverSubs, quitted, teardownVars,
                   destroyVars, regVars, lockVars, proxyVars, cacheVars>>

\* The transport of subscriber connection cn, which the store holds
\* subscribed to topic t, receives a message for it and emits the event.
Deliver(cn, kd, t, bad) ==
    /\ wire' = {}
    /\ <<cn, kd, t>> \in serverSubs
    /\ bad \subseteq {handlers[j].id : j \in {k \in DOMAIN handlers :
                           handlers[k].client = cn /\ handlers[k].kind = kd}}
    /\ dispatch' = Emit(handlers, cn, kd, t, bad, dispatch.threw)
    /\ UNCHANGED <<subscriberClients, nDup, cleanupFunctions, sub, callLocals, handlers,
                   serverSubs, quitted, teardownVars, destroyVars, regVars, lockVars, proxyVars, cacheVars>>

\* The subscriber calls the teardown function subscribe / psubscribe returned
\* for subscription i, up to its await: the handler is detached and the
\* unsubscribe command goes out on the subscription's connection.
TeardownCall(i) ==
    /\ dispatch' = NoDispatch
    /\ i \in DOMAIN cleanupFunctions
    /\ i \notin tCalled
    /\ handlers' = Off(handlers, cleanupFunctions[i])
    /\ wire' = {CleanupCommand(cleanupFunctions[i])}
    /\ serverSubs' = ServerUnsubscribe(serverSubs, quitted, cleanupFunctions[i].client,
                                       cleanupFunctions[i].kind, cleanupFunctions[i].channels)
    /\ tRuns' = [tRuns EXCEPT ![i] = @ + 1]
    /\ tCalled' = tCalled \cup {i}
    /\ pendingT' = pendingT \cup {i}
    /\ UNCHANGED <<subscriberClients, nDup, cleanupFunctions, sub, callLocals, quitted,
                   destroyVars, regVars, lockVars, proxyVars, cacheVars>>

\* The unsubscribe of a teardown the subscriber called settles: the teardown
\* returns, or throws the command's error.
TeardownResumes(i, settled) ==
    /\ dispatch' = NoDispatch
    /\ i \in pendingT
    /\ pendingT' = pendingT \ {i}
    /\ wire' = {}
    /\ UNCHANGED <<subscriberClients, nDup, cleanupFunctions, sub, callLocals, handlers,
                   serverSubs, quitted, tRuns, tCalled, destroyVars, regVars,
                   lockVars, proxyVars, cacheVars>>

\* The pub/sub onModuleDestroy up to its first await: every function of
\* cleanupFunctions is called, each with a catch.
PubSubDestroyBegin ==
    /\ dispatch' = NoDispatch
    /\ spc \in {"idle", "done"}
    /\ nCleared < MaxShutdowns
    /\ spc' = "cleanups"
    /\ sRet' = "none"
    /\ handlers' = OffEach(handlers, cleanupFunctions, 1)
    /\ wire' = {CleanupCommand(cleanupFunctions[i]) : i \in DOMAIN cleanupFunctions}
    /\ serverSubs' = UnsubscribeEach(serverSubs, quitted, cleanupFunctions, 1)
    /\ tRuns' = [i \in SubIds |-> IF i \in DOMAIN cleanupFunctions THEN tRuns[i] + 1
                                  ELSE tRuns[i]]
    /\ sCleanups' = [i \in SubIds |-> IF i \in DOMAIN cleanupFunctions THEN "pending"
                                      ELSE "none"]
    /\ UNCHANGED <<subscriberClients, nDup, cleanupFunctions, sub, callLocals, quitted,
                   tCalled, pendingT, sQuits, sCloses, nCleared, regVars,
                   lockVars, proxyVars, cacheVars>>

\* The unsubscribe of a teardown the shutdown called settles.
PubSubCleanupSettles(i, settled) ==
    /\ dispatch' = NoDispatch
    /\ wire' = {}
    /\ spc = "cleanups"
    /\ sCleanups[i] = "pending"
    /\ sCleanups' = [sCleanups EXCEPT ![i] = settled]
    /\ UNCHANGED <<subscriberClients, nDup, cleanupFunctions, sub, callLocals, handlers,
                   serverSubs, quitted, teardownVars, spc, sQuits, sRet,
                   sCloses, nCleared, regVars, lockVars, proxyVars, cacheVars>>

\* The first await of the shutdown is over: quit() is called on every
\* subscriber connection of the table, each with a catch; or the await
\* rejected and onModuleDestroy throws.
PubSubDestroyQuits ==
    /\ dispatch' = NoDispatch
    /\ spc = "cleanups"
    /\ CleanupsSettled(sCleanups) # "pending"
    /\ IF CleanupsSettled(sCleanups) = "rejected"
       THEN /\ spc' = "done"
            /\ sRet' = "throw"
            /\ nCleared' = nCleared + 1
            /\ wire' = {}
            /\ sCleanups' = [i \in SubIds |-> "none"]
            /\ UNCHANGED <<sQuits, sCloses, quitted, serverSubs>>
       ELSE /\ spc' = "quits"
            /\ sQuits' = subscriberClients
            /\ sCloses' = [n \in Names |-> IF subscriberClients[n] # NoSubscriber
                                           THEN "pending" ELSE "none"]
            /\ quitted' = quitted \cup
                    {subscriberClients[n] : n \in {m \in Names :
                                                      subscriberClients[m] # NoSubscriber}}
            /\ wire' = {<<subscriberClients[n], "quit", {}>> :
                            n \in {m \in Names : subscriberClients[m] # NoSubscriber}}
            /\ serverSubs' = ServerQuit(serverSubs, {subscriberClients[n] : n \in Names})
            /\ UNCHANGED <<sRet, sCleanups, nCleared>>
    /\ UNCHANGED <<subscriberClients, nDup, cleanupFunctions, sub, callLocals, handlers,
                   teardownVars, regVars, lockVars, proxyVars, cacheVars>>

\* One of the quit() promises of the shutdown settles.
PubSubQuitSettles(n, settled) ==
    /\ dispatch' = NoDispatch
    /\ wire' = {}
    /\ spc = "quits"
    /\ sCloses[n] = "pending"
    /\ sCloses' = [sCloses EXCEPT ![n] = settled]
    /\ UNCHANGED <<subscriberClients, nDup, cleanupFunctions, sub, callLocals, handlers,
                   serverSubs, quitted, teardownVars, spc, sQuits, sRet,
                   sCleanups, nCleared, regVars, lockVars, proxyVars, cacheVars>>

\* The quits have all settled: this.subscriberClients.clear(), and
\* onModuleDestroy returns.
PubSubDestroyClears ==
    /\ dispatch' = NoDispatch
    /\ spc = "quits"
    /\ ClosesSettled(sCloses) # "pending"
    /\ spc' = "done"
    /\ IF ClosesSettled(sCloses) = "rejected"
       THEN /\ sRet' = "throw"
            /\ UNCHANGED subscriberClients
       ELSE /\ sRet' = "ok"
            /\ subscriberClients' = [n \in Names |-> NoSubscriber]
    /\ sQuits' = [n \in Names |-> NoSubscriber]
    /\ sCloses' = [n \in Names |-> "none"]
    /\ sCleanups' = [i \in SubIds |-> "none"]
    /\ nCleared' = nCleared + 1
    /\ wire' = {}
    /\ UNCHANGED <<nDup, cleanupFunctions, sub, callLocals, handlers, serverSubs, quitted,
                   teardownVars, regVars, lockVars, proxyVars, cacheVars>>

\* ---- RedisService.subscribe / psubscribe ----------------------------------
\* The connection is in subscriber mode: the store holds a subscription of it.
InSubscriberMode(held, cn) == \E e \in held : e[1] = cn
\* const client = this.getClient(clientName): the connection RedisService's
\* subscribe and psubscribe send their command on.
ServiceSubscriberClient(map, n) ==
    LET r == GetClient(map, n)
    IN IF r.threw # "none"
       THEN [threw |-> r.threw, client |-> NoSubscriber]
       ELSE [threw |-> "none", client |-> Conn(r.client)]

\* RedisService.subscribe(channels, callback, name) or psubscribe(patterns,
\* callback, name) up to its await: getClient, which may throw, then the
\* subscribe command goes out on the connection it returned.
ServiceSubscribeBegin(p, kd, n, topics, o) ==
    /\ ppc[p] = "idle"
    /\ Len(handlers) + Cardinality({q \in PubSubCallers : ppc[q] = "subscribing"})
            < MaxSubscribes
    /\ LET r == ServiceSubscriberClient(clients, n)
       IN /\ sub' = Shown(kd, n, r.threw, r.client, "awaiting")
          /\ got' = GetClient(clients, n)
          /\ IF r.threw # "none"
             THEN /\ wire' = {}
                  /\ UNCHANGED <<callLocals, serverSubs>>
             ELSE /\ ppc' = [ppc EXCEPT ![p] = "subscribing"]
                  /\ pReply' = [pReply EXCEPT ![p] = o]
                  /\ pKind' = [pKind EXCEPT ![p] = kd]
                  /\ pName' = [pName EXCEPT ![p] = n]
                  /\ pClient' = [pClient EXCEPT ![p] = r.client]
                  /\ pChannels' = [pChannels EXCEPT ![p] = topics]
                  /\ wire' = {<<r.client, kd, topics>>}
                  /\ serverSubs' = IF o = "fulfilled"
                                   THEN ServerSubscribe(serverSubs, quitted, r.client, kd, topics)
                                   ELSE serverSubs
    /\ dispatch' = NoDispatch
    /\ UNCHANGED <<subscriberClients, nDup, cleanupFunctions, handlers, quitted, teardownVars,
                   destroyVars, clients, registered, rpc, rName, rClient, rQuit, rRet, dpc,
                   dQuits, dRet, lockVars, proxyVars, cacheVars>>

\* The awaited command settles: fulfilled, the handler is attached and the
\* teardown is returned (it is kept nowhere); rejected, the call throws.
ServiceSubscribeResumes(p, settled) ==
    /\ dispatch' = NoDispatch
    /\ ppc[p] = "subscribing"
    /\ settled = pReply[p]
    /\ pReply' = [pReply EXCEPT ![p] = "none"]
    /\ ppc' = [ppc EXCEPT ![p] = "idle"]
    /\ pKind' = [pKind EXCEPT ![p] = "none"]
    /\ pName' = [pName EXCEPT ![p] = "none"]
    /\ pClient' = [pClient EXCEPT ![p] = NoSubscriber]
    /\ pChannels' = [pChannels EXCEPT ![p] = {}]
    /\ wire' = {}
    /\ IF settled = "fulfilled"
       THEN /\ handlers' = On(handlers, [id |-> 0, kind |-> pKind[p], client |-> pClient[p],
                                         channels |-> pChannels[p]])
            /\ sub' = Shown(pKind[p], pName[p], "none", pClient[p], "cleanup")
       ELSE /\ sub' = Shown(pKind[p], pName[p], "CommandError", pClient[p], "cleanup")
            /\ UNCHANGED handlers
    /\ UNCHANGED <<subscriberClients, nDup, cleanupFunctions, serverSubs, quitted,
                   teardownVars, destroyVars, regVars, lockVars, proxyVars, cacheVars>>

\* A command that is not a pub/sub command (the lock service's conditional
\* set, a get) on the connection getClient(name) returns: a connection in
\* subscriber mode rejects it.
MainCommand(n) ==
    /\ dispatch' = NoDispatch
    /\ got' = GetClient(clients, n)
    /\ LET r == GetClient(clients, n)
       IN IF r.threw # "none"
          THEN /\ sub' = Shown("command", n, r.threw, NoSubscriber, "sent")
               /\ wire' = {}
          ELSE /\ sub' = Shown("command", n,
                               IF InSubscriberMode(serverSubs, Conn(r.client))
                               THEN "SubscriberModeError" ELSE "none",
                               Conn(r.client), "sent")
               /\ wire' = IF InSubscriberMode(serverSubs, Conn(r.client)) THEN {}
                          ELSE {<<Conn(r.client), "set", {}>>}
    /\ UNCHANGED <<subscriberClients, nDup, cleanupFunctions, callLocals, handlers,
                   serverSubs, quitted, teardownVars, destroyVars, clients, registered, rpc,
                   rName, rClient, rQuit, rRet, dpc, dQuits, dRet, lockVars, proxyVars, cacheVars>>

\* Subscriptions made through RedisService, with ordinary commands on the
\* registry's connections, while the second connection is registered.
ServiceSubNext ==
    \/ \E c \in Clients : AddClient("cache", c)
    \/ \E p \in PubSubCallers, kd \in SubKinds, n \in Names, o \in Settled :
          ServiceSubscribeBegin(p, kd, n, {"orders"}, o)
    \/ \E p \in PubSubCallers, s \in Settled : ServiceSubscribeResumes(p, s)
    \/ \E n \in Names : MainCommand(n)

\* ---- withClient -----------------------------------------------------------
\* The methods of RedisService that take a connection name: required is the
\* number of parameters before the optional ones, optional the number of
\* optional parameters between those and clientName.
Ops(names, r, o) == {[name |-> nm, required |-> r, optional |-> o] : nm \in names}
Operations ==
    Ops({"flushDB", "getClient"}, 0, 0)
    \cup Ops({"exists", "getTTL", "delete", "keys", "persist", "type", "get", "getJSON",
              "hashGetAll", "hashKeys", "hashLength", "listLength", "listPopLeft",
              "listPopRight", "mget", "mset", "pipeline", "setCount", "setDifference",
              "setIntersection", "setMembers", "setPop", "setRandomMember", "setUnion",
              "transaction", "zCount"}, 1, 0)
    \cup Ops({"expire", "rename", "publish", "getJSONValidated", "hashDelete", "hashExists",
              "hashGet", "hashMget", "hashSet", "listIndex", "listPushLeft",
              "listPushRight", "psubscribe", "set", "setAdd", "setIsMember", "setJSON",
              "setRemove", "subscribe", "zAdd", "zRank", "zRemove", "zReverseRank",
              "zScore"}, 2, 0)
    \cup Ops({"listRange", "listSetByIndex", "listTrim", "setWithTTL", "zCountByScore",
              "zIncrementScore", "zRange", "zRangeByScore", "zRangeReverse"}, 3, 0)
    \cup Ops({"decrement", "increment", "scanKeys", "scanKeysToArray"}, 1, 1)
    \cup Ops({"hashIncrement"}, 2, 1)
OperationNamed(nm) == CHOOSE op \in Operations : op.name = nm

\* An argument that is not a connection name, and k of them.
Value == "value"
Values(k) == [i \in 1..k |-> Value]
\* The argument lists a call of op can pass: its own arguments with or
\* without the optional ones, or all of them followed by a connection name
\* (or undefined) of the caller's choosing.
ArgLists(op) ==
    {Values(k) : k \in op.required..(op.required + op.optional)}
    \cup {Append(Values(op.required + op.optional), n) : n \in Names \cup {NoClient}}
\* A call that passes no argument in the place of clientName.
OwnArgumentsOnly(op, args) == Len(args) <= op.required + op.optional

\* A wrapper that appends the name whatever the method and its arguments.
AppendClientName(prop, args, clientName) == Append(args, clientName)
\* The function the get trap returns for a method: the arguments the method
\* is applied to.
WithClientArgs(prop, args, clientName) ==
    IF prop \in {"decrement", "increment"} /\ Len(args) = 1
    THEN <<args[1], NoClient, clientName>>
    ELSE IF prop = "hashIncrement" /\ Len(args) = 2
    THEN <<args[1], args[2], NoClient, clientName>>
    ELSE IF prop \in {"scanKeys", "scanKeysToArray"} /\ Len(args) = 1
    THEN <<args[1], NoClient, clientName>>
    ELSE Append(args, clientName)
\* The value of the method's clientName parameter when it is applied to
\* passed: the argument in its place, or the default for a missing or
\* undefined one; arguments beyond it are ignored.
ClientNameParameter(op, passed) ==
    LET at == op.required + op.optional + 1
    IN IF Len(passed) >= at /\ passed[at] # NoClient THEN passed[at] ELSE DEFAULT_REDIS_NAME
\* The get trap for 'withClient': (name) => this.withClient(name), a wrapper
\* of the service bound to name.
WithClientTrap(bound, name) == name
\* A call of a method through the wrapper w: bound is the clientName its
\* get trap closes over, asked the name its withClient call was given.
Invocation(prop, op, args, w) ==
    LET passed == WithClientArgs(op.name, args, w.name)
    IN [prop |-> prop, args |-> args, passed |-> passed, bound |-> w.name,
        asked |-> w.asked, resolved |-> ClientNameParameter(op, passed)]

\* service.withClient(name)
WithClient(n) ==
    /\ proxy' = [name |-> n, asked |-> n, from |-> "service"]
    /\ UNCHANGED <<inv, regVars, subVars, lockVars, cacheVars>>

\* wrapper.withClient(name)
WrapperWithClient(n) ==
    /\ proxy.name # "none"
    /\ proxy' = [name |-> WithClientTrap(proxy.name, n), asked |-> n, from |-> proxy.name]
    /\ UNCHANGED <<inv, regVars, subVars, lockVars, cacheVars>>

\* wrapper.method(...args): the method runs on the service with the
\* rewritten arguments and looks up its connection with getClient.
WrapperCall(op, args) ==
    /\ proxy.name # "none"
    /\ inv' = Invocation(op.name, op, args, proxy)
    /\ got' = GetClient(clients, inv'.resolved)
    /\ UNCHANGED <<proxy, clients, registered, rpc, rName, rClient, rQuit, rRet, dpc, dQuits,
                   dRet, subVars, lockVars, cacheVars>>

\* wrapper.client: the getter runs with the wrapper as this, so its
\* this.getClient(DEFAULT_REDIS_NAME) is a call through the wrapper.
WrapperClientProperty ==
    /\ proxy.name # "none"
    /\ inv' = Invocation("client", OperationNamed("getClient"), <<DEFAULT_REDIS_NAME>>, proxy)
    /\ got' = GetClient(clients, inv'.resolved)
    /\ UNCHANGED <<proxy, clients, registered, rpc, rName, rClient, rQuit, rRet, dpc, dQuits,
                   dRet, subVars, lockVars, cacheVars>>

\* Wrappers made of the service and of each other, with calls through the
\* latest one, while the second connection is registered.
ProxyNext ==
    \/ \E c \in Clients : AddClient("cache", c)
    \/ \E n \in Names : WithClient(n)
    \/ \E n \in Names : WrapperWithClient(n)
    \/ \E op \in Operations : \E args \in ArgLists(op) : WrapperCall(op, args)
    \/ WrapperClientProperty

\* The pub/sub service with a registry whose default connection is added,
\* replaced and removed; its subscriptions are for one channel and stay
\* until the module is destroyed, which happens once, and the commands it
\* sends to the store succeed.
PubSubNext ==
    \/ \E c \in Clients : AddClient(DEFAULT_REDIS_NAME, c)
    \/ RemoveClientBegin("m1", DEFAULT_REDIS_NAME)
    \/ \E s \in Settled : RemoveClientResumes("m1", s)
    \/ \E n \in Names : GetSubscriberClientCall(n)
    \/ \E n \in Names : Publish(n, "orders")
    \/ \E p \in PubSubCallers, kd \in SubKinds, n \in Names :
            SubscribeBegin(p, kd, n, {"orders"}, "fulfilled")
    \/ \E p \in PubSubCallers, s \in Settled : SubscribeResumes(p, s)
    \/ nCleared = 0 /\ PubSubDestroyBegin
    \/ \E i \in SubIds : PubSubCleanupSettles(i, "fulfilled")
    \/ PubSubDestroyQuits
    \/ \E n \in Names : PubSubQuitSettles(n, "fulfilled")
    \/ PubSubDestroyClears

PubSubSpec == RegInit /\ [][PubSubNext]_vars

\* The subscriptions of one subscriber on the default connection: messages
\* arrive, callbacks throw and the subscriber tears subscriptions down.
DispatchNext ==
    \/ \E kd \in SubKinds, topics \in TopicSets, o \in Settled :
            SubscribeBegin("p1", kd, DEFAULT_REDIS_NAME, topics, o)
    \/ \E s \in Settled : SubscribeResumes("p1", s)
    \/ \E e \in serverSubs, bad \in SUBSET SubIds : Deliver(e[1], e[2], e[3], bad)
    \/ \E i \in SubIds : TeardownCall(i)
    \/ \E i \in SubIds, s \in Settled : TeardownResumes(i, s)

\* The life of the pub/sub service on the default connection: channel
\* subscriptions are made and torn down, and onModuleDestroy is called, more
\* than once.
ShutdownNext ==
    \/ \E o \in Settled :
            SubscribeBegin("p1", "subscribe", DEFAULT_REDIS_NAME, {"orders"}, o)
    \/ \E s \in Settled : SubscribeResumes("p1", s)
    \/ \E i \in SubIds : TeardownCall(i)
    \/ \E i \in SubIds, s \in Settled : TeardownResumes(i, s)
    \/ PubSubDestroyBegin
    \/ \E i \in SubIds, s \in Settled : PubSubCleanupSettles(i, s)
    \/ PubSubDestroyQuits
    \/ \E n \in Names, s \in Settled : PubSubQuitSettles(n, s)
    \/ PubSubDestroyClears

\* The timer of onModuleDestroy fires unless the race is over, and a settled
\* race resumes the function: the event loop runs due timers and continuations.
RegLive == RegSpec /\ WF_vars(DestroyTimeout) /\ WF_vars(DestroyCloseWins)

\* ---- specification ------------------------------------------------------
LockNext ==
    \/ \E c \in Callers : CallAcquire(c)
    \/ \E c \in Callers : CallWithLock(c)
    \/ \E c \in Callers : TryAcquireStore(c)
    \/ \E c \in Callers : AcquireThrows(c)
    \/ \E c \in Callers : AcquireReturnsHandle(c)
    \/ \E c \in Callers : AcquireDenied(c)
    \/ \E c \in Callers : DelayElapsed(c)
    \/ \E c \in Callers : FnReturns(c)
    \/ \E c \in Callers : FnThrows(c)
    \/ \E c \in Callers : HandleRelease(c)
    \/ \E c \in Callers : HandleExtend(c)
    \/ \E c \in Callers : HandleDrop(c)
    \/ \E c \in Callers : ReleaseStore(c)
    \/ \E c \in Callers : ReleaseResumes(c)
    \/ \E c \in Callers : ExtendStore(c)
    \/ \E c \in Callers : ExtendResumes(c)
    \/ \E k \in Keys : ForceRelease(k)
    \/ Tick

\* The lock service runs against a registry that holds the default connection.
\* ---- the @Cacheable wrapper -------------------------------------------------
\* descriptor.value = async function (...args), up to its first await: without
\* a redisService on the instance the method is called directly, else the
\* key is built and GET is sent.
CacheableCall(args, redisService, ttl, unless) ==
    /\ cacheCall.pc \in {"idle", "done"}
    /\ cacheCall' = IF ~redisService
                    THEN [NoCacheCall EXCEPT !.pc = "method"]
                    ELSE [NoCacheCall EXCEPT !.pc = "get", !.redisService = TRUE, !.ttl = ttl,
                                             !.unless = unless, !.cacheKey = CacheKey(args)]
    /\ UNCHANGED <<cacheStore, regVars, subVars, proxyVars, lockVars>>

\* await redisService.get(cacheKey, clientName) settles. Inside the try: a
\* reply that is not null is parsed and returned; a rejected GET and a
\* SyntaxError of JSON.parse are caught. After it the method is called.
CacheGetSettles(settled) ==
    /\ cacheCall.pc = "get"
    /\ LET cached == cacheStore[cacheCall.cacheKey]
           parsed == JSONParse(cached.text)
       IN cacheCall' =
              IF settled = "rejected"
              THEN [cacheCall EXCEPT !.pc = "method",
                                     !.cached = [state |-> "rejected", reply |-> NullReply]]
              ELSE IF ~cached.null /\ ~parsed.threw
                   THEN [cacheCall EXCEPT !.pc = "done",
                                          !.cached = [state |-> "fulfilled", reply |-> cached],
                                          !.ret = [state |-> "returned", value |-> parsed.value]]
                   ELSE [cacheCall EXCEPT !.pc = "method",
                                          !.cached = [state |-> "fulfilled", reply |-> cached]]
    /\ UNCHANGED <<cacheStore, regVars, subVars, proxyVars, lockVars>>

\* await originalMethod.apply(this, args) settles with outcome: the method's
\* rejection leaves the wrapper; its result is returned at once when there is
\* no redisService, when unless(result) holds or when JSON.stringify throws
\* (caught); else set or setWithTTL is sent with the serialized result.
MethodSettles(outcome) ==
    /\ cacheCall.pc = "method"
    /\ LET c == [cacheCall EXCEPT !.runs = @ + 1, !.result = outcome]
           serialized == JSONStringify(outcome.value)
       IN cacheCall' =
              IF outcome.state = "threw"
              THEN [c EXCEPT !.pc = "done", !.ret = outcome]
              ELSE IF \/ ~c.redisService
                      \/ UnlessHolds(c.unless, outcome.value)
                      \/ serialized.threw
                   THEN [c EXCEPT !.pc = "done", !.ret = outcome]
                   ELSE [c EXCEPT !.pc = "set",
                                  !.sent = [cmd |-> IF c.ttl # 0 THEN "setWithTTL" ELSE "set",
                                            key |-> c.cacheKey, value |-> serialized.text,
                                            undefined |-> serialized.undefined, ttl |-> c.ttl]]
    /\ UNCHANGED <<cacheStore, regVars, subVars, proxyVars, lockVars>>

\* await redisService.set / setWithTTL settles: a rejection is caught, and the
\* method's result is returned either way. The client sends an undefined
\* value as the empty text.
CacheSetSettles(settled) ==
    /\ cacheCall.pc = "set"
    /\ cacheCall' = [cacheCall EXCEPT !.pc = "done", !.ret = cacheCall.result]
    /\ cacheStore' = IF settled = "fulfilled"
                     THEN [cacheStore EXCEPT ![cacheCall.sent.key] = Bulk(cacheCall.sent.value)]
                     ELSE cacheStore
    /\ UNCHANGED <<regVars, subVars, proxyVars, lockVars>>

\* The texts the application itself stores: a plain, unquoted text.
PlainTexts == {<<"o", "k">>}
\* redisService.set(key, value) called by the application
ServiceSet(k, text) ==
    /\ cacheStore' = [cacheStore EXCEPT ![k] = Bulk(text)]
    /\ UNCHANGED <<cacheCall, regVars, subVars, proxyVars, lockVars>>

\* redisService.delete(key) called by the application
ServiceDelete(k) ==
    /\ cacheStore[k] # NullReply
    /\ cacheStore' = [cacheStore EXCEPT ![k] = NullReply]
    /\ UNCHANGED <<cacheCall, regVars, subVars, proxyVars, lockVars>>

\* What the decorated method does: return one of its results, or throw.
MethodOutcomes ==
    {[state |-> "returned", value |-> r] : r \in MethodResults}
        \cup {[state |-> "threw", value |-> JsUndefined]}

\* Calls of one decorated method, one at a time, while the application
\* writes and deletes the same keys.
CacheNext ==
    \/ \E args \in CacheArgs, s \in BOOLEAN, ttl \in TtlOptions, u \in UnlessOptions :
           CacheableCall(args, s, ttl, u)
    \/ \E s \in Settled : CacheGetSettles(s)
    \/ \E o \in MethodOutcomes : MethodSettles(o)
    \/ \E s \in Settled : CacheSetSettles(s)
    \/ \E k \in CacheKeys, text \in PlainTexts : ServiceSet(k, text)
    \/ \E k \in CacheKeys : ServiceDelete(k)

LockServiceInit == LockInit /\ ConnInit(DefaultRegistered)
LockSpec == LockServiceInit /\ [][LockNext]_vars
DispatchSpec == LockServiceInit /\ [][DispatchNext]_vars
ShutdownSpec == LockServiceInit /\ [][ShutdownNext]_vars
ProxySpec == LockServiceInit /\ [][ProxyNext]_vars
ServiceSubSpec == LockServiceInit /\ [][ServiceSubNext]_vars
CacheSpec == LockServiceInit /\ [][CacheNext]_vars

\* The callers that hold handles, with an operator whose forceRelease calls
\* report what they return.
ForceNext ==
    \/ \E c \in Callers : CallAcquire(c)
    \/ \E c \in Callers : TryAcquireStore(c)
    \/ \E c \in Callers : AcquireThrows(c)
    \/ \E c \in Callers : AcquireReturnsHandle(c)
    \/ \E c \in Callers : AcquireDenied(c)
    \/ \E c \in Callers : DelayElapsed(c)
    \/ \E c \in Callers : HandleRelease(c)
    \/ \E c \in Callers : HandleExtend(c)
    \/ \E c \in Callers : HandleDrop(c)
    \/ \E c \in Callers : ReleaseStore(c)
    \/ \E c \in Callers : ReleaseResumes(c)
    \/ \E c \in Callers : ExtendStore(c)
    \/ \E c \in Callers : ExtendResumes(c)
    \/ \E k \in Keys : ForceReleaseReturns(k)
    \/ Tick

ForceSpec == LockServiceInit /\ [][ForceNext]_vars

\* The store's clock does not stop: a key's TTL keeps running down whatever
\* the callers do or fail to do (expiry is the store's work, not a caller's).
LockLive == LockSpec /\ WF_vars(Tick)

\* ---- properties ---------------------------------------------------------
\* Caller c is executing the function passed to withLock.
InFn(c) == pc[c] = "inFn"
\* acquire returned a handle to c (or to withLock on c's behalf) and release()
\* has not been called on it.
HasHandle(c) == pc[c] \in {"held", "ext", "extReply", "inFn"} /\ nRelease[c] = 0
\* The step is the store running (or the transport failing) c's command.
SetRuns(c) == pc[c] = "set" /\ pc'[c] = "setReply"
ReleaseRuns(c) == pc[c] = "rel" /\ pc'[c] = "relReply"
ExtendRuns(c) == pc[c] = "ext" /\ pc'[c] = "extReply"
\* The step is c resuming with the reply it awaited.
SetReturns(c) == pc[c] = "setReply" /\ pc'[c] # "setReply"
ReleaseReturns(c) == pc[c] = "relReply" /\ pc'[c] # "relReply"
ExtendReturns(c) == pc[c] = "extReply" /\ pc'[c] # "extReply"

\* C1 as stated: in every reachable state no two callers execute the function
\* passed to withLock for the same resource key, TTL expiry being a step that
\* may happen while the key exists.  (A key removed by forceRelease, which is
\* documented to break the lock, is left out of the statement.)
C1_MutualExclusion ==
    \A c, d \in Callers :
        (c # d /\ InFn(c) /\ InFn(d) /\ lost[c] # "forced" /\ lost[d] # "forced")
            => key[c] # key[d]

\* C1 amended: two callers execute their functions for the same key only when
\* the store removed the key of one of them, by TTL expiry or by forceRelease,
\* after that caller had acquired it.
C1_MutualExclusionWhileKeyLives ==
    \A c, d \in Callers :
        (c # d /\ InFn(c) /\ InFn(d) /\ key[c] = key[d])
            => (lost[c] # "no" \/ lost[d] # "no")

\* A caller runs its function, its key alive, while a second withLock on the
\* same key has just been refused by the store.
C1_Witness ==
    \E c, d \in Callers :
        /\ c # d /\ InFn(c) /\ lost[c] = "no"
        /\ kind[d] = "withLock" /\ key[d] = key[c]
        /\ pc[d] = "setReply" /\ reply[d] = "nil"

\* C2 as stated: while a handle returned by acquire(k) has not had release()
\* called, the conditional set of any other acquire(k) with retryCount = 0
\* obtains no lock.  (A key removed by forceRelease is left out of the
\* statement.)
C2_SecondAcquireFails ==
    [][\A c, d \in Callers :
        (c # d /\ HasHandle(c) /\ lost[c] # "forced" /\ key[d] = key[c]
            /\ retryCount[d] = 0 /\ SetRuns(d))
            => reply'[d] # "OK"]_vars

\* C2 amended: while a handle returned by acquire(k) has not had release()
\* called and the key still holds the handle's lockId, the conditional set of
\* any other acquire(k) with retryCount = 0 leaves the store as it is and
\* obtains no lock, and on the store's nil reply that acquire returns null.
C2_SecondAcquireFailsWhileKeyHeld ==
    [][\A c, d \in Callers :
        /\ (c # d /\ HasHandle(c) /\ Holds(c, LockKey(key[c])) /\ key[d] = key[c]
                /\ retryCount[d] = 0 /\ SetRuns(d))
            => (reply'[d] \in {"nil", "Err"} /\ storeVal' = storeVal /\ storeTtl' = storeTtl)
        /\ (kind[d] = "acquire" /\ retryCount[d] = 0 /\ reply[d] = "nil" /\ SetReturns(d))
            => (pc'[d] = "done" /\ result'[d] = "null")]_vars

\* A holder has its handle, unreleased and still in the store, and another
\* acquire of the key with retryCount = 0 has been answered nil.
C2_Witness ==
    \E c, d \in Callers :
        /\ c # d /\ HasHandle(c) /\ Holds(c, LockKey(key[c]))
        /\ kind[d] = "acquire" /\ key[d] = key[c] /\ retryCount[d] = 0
        /\ pc[d] = "setReply" /\ reply[d] = "nil"

\* C3: release() on a handle whose lockId is not the value stored at its lock
\* key leaves the key, its value and its TTL as they are, in the one store step
\* that compares and deletes, and returns false.
C3_ReleaseOfAnothersLock ==
    [][\A c \in Callers :
        /\ (ReleaseRuns(c) /\ storeVal[LockKey(key[c])] # lockId[c])
            => (storeVal' = storeVal /\ storeTtl' = storeTtl /\ reply'[c] \in {"0", "Err"})
        /\ (ReleaseReturns(c) /\ reply[c] # "1") => lastRet'[c] = "false"]_vars

\* A release was answered 0 while the key holds another owner's lockId.
C3_Witness ==
    \E c \in Callers :
        /\ pc[c] = "relReply" /\ reply[c] = "0"
        /\ storeVal[LockKey(key[c])] \notin {NoId, lockId[c]}

\* C4 as stated: release() on a handle whose key has not expired since acquire
\* returns true and deletes the key.  (Stated of the first release() on the
\* handle, its key not removed by forceRelease either.)
C4_ReleaseSucceedsUnlessExpired ==
    [][\A c \in Callers :
        (ReleaseRuns(c) /\ lost[c] = "no" /\ nRelease[c] = 1)
            => (reply'[c] = "1" /\ storeVal'[LockKey(key[c])] = NoId)]_vars

\* C4 amended: the first release() on a handle whose key was removed neither
\* by TTL expiry nor by forceRelease since acquire deletes the key and returns
\* true, unless the store call fails in transport.
C4_ReleaseSucceedsWhileOwner ==
    [][\A c \in Callers :
        /\ (ReleaseRuns(c) /\ lost[c] = "no" /\ nRelease[c] = 1)
            => \/ reply'[c] = "1" /\ storeVal'[LockKey(key[c])] = NoId
               \/ reply'[c] = "Err"
        /\ (ReleaseReturns(c) /\ reply[c] = "1") => lastRet'[c] = "true"]_vars

\* A holder's release() has returned true and the key is gone.
C4_Witness ==
    \E c \in Callers :
        /\ kind[c] = "acquire" /\ pc[c] = "held" /\ lost[c] = "no"
        /\ nRelease[c] = 1 /\ lastRet[c] = "true"
        /\ storeVal[LockKey(key[c])] = NoId

\* C5 as stated: extend(newTtl) returns true and sets the key's TTL to newTtl
\* exactly when the stored value is the handle's lockId as the script runs;
\* otherwise it returns false and changes neither value nor TTL.
C5_ExtendIffOwner ==
    [][\A c \in Callers :
        /\ ExtendRuns(c) =>
            /\ reply'[c] = "1" =>
                  /\ storeVal[LockKey(key[c])] = lockId[c]
                  /\ storeTtl'[LockKey(key[c])] = newTtl[c] /\ storeVal' = storeVal
            /\ reply'[c] # "1" => (storeVal' = storeVal /\ storeTtl' = storeTtl)
            /\ storeVal[LockKey(key[c])] = lockId[c] => reply'[c] # "0"
        /\ ExtendReturns(c) => lastRet'[c] = (IF reply[c] = "1" THEN "true" ELSE "false")]_vars

\* C5 amended: when the stored value is not the handle's lockId as the script
\* runs, extend changes neither value nor TTL and returns false; when it is,
\* extend sets the TTL to newTtl (>= 1) and returns true, unless the store call
\* fails in transport: then it returns false, and the TTL is newTtl or the old
\* one according to whether the script ran.
C5_ExtendOwnerOnly ==
    [][\A c \in Callers :
        /\ ExtendRuns(c) =>
            IF storeVal[LockKey(key[c])] = lockId[c]
            THEN /\ storeVal' = storeVal
                 /\ \/ reply'[c] = "1" /\ storeTtl'[LockKey(key[c])] = newTtl[c]
                    \/ reply'[c] = "Err"
                        /\ storeTtl'[LockKey(key[c])] \in {storeTtl[LockKey(key[c])], newTtl[c]}
            ELSE reply'[c] \in {"0", "Err"} /\ storeVal' = storeVal /\ storeTtl' = storeTtl
        /\ ExtendReturns(c) => lastRet'[c] = (IF reply[c] = "1" THEN "true" ELSE "false")]_vars

\* An extend raised the TTL of the holder's key to its argument and was answered 1.
C5_Witness ==
    \E c \in Callers :
        /\ pc[c] = "extReply" /\ reply[c] = "1"
        /\ Holds(c, LockKey(key[c]))
        /\ newTtl[c] = MaxTtl /\ storeTtl[LockKey(key[c])] = newTtl[c]

\* C6: acquire(k, {retryCount: n}) issues at most n + 1 conditional sets, one
\* after each delay and none after a successful one; it returns the handle on
\* the first OK reply; it returns null, raising nothing, when the n + 1 sets
\* were all answered nil; and it takes no delay after the last of them.
C6_Attempts ==
    [][\A c \in Callers :
        /\ pc'[c] \in {"set", "setReply", "delay"} =>
            /\ nSet'[c] = attempt'[c] + 1
            /\ nSet'[c] <= retryCount'[c] + 1
            /\ nDelay'[c] = (IF pc'[c] = "delay" THEN attempt'[c] + 1 ELSE attempt'[c])
            /\ nDelay'[c] <= retryCount'[c]
        /\ (SetReturns(c) /\ reply[c] = "OK") =>
            (pc'[c] \in {"held", "inFn"} /\ result'[c] \in {"handle", "pending"})
        /\ (SetReturns(c) /\ reply[c] = "nil" /\ attempt[c] = retryCount[c]) =>
            (pc'[c] = "done" /\ result'[c] \in {"null", "LockNotAcquired"})
        /\ (result[c] = "pending" /\ result'[c] \in {"null", "LockNotAcquired"}) =>
            /\ pc[c] = "setReply" /\ reply[c] = "nil"
            /\ nSet[c] = retryCount[c] + 1 /\ nDelay[c] = retryCount[c]]_vars

\* An acquire with retries has had its last conditional set answered nil.
C6_Witness ==
    \E c \in Callers :
        /\ kind[c] = "acquire" /\ retryCount[c] >= 1
        /\ pc[c] = "setReply" /\ reply[c] = "nil"
        /\ attempt[c] = retryCount[c] /\ nSet[c] = retryCount[c] + 1
        /\ nDelay[c] = retryCount[c]

\* C7 as stated: a withLock call that acquired the lock has executed exactly
\* one release when it returns or throws, and the lock key is then absent.
\* (Stated of the calls whose release was answered by the store.)
C7_ReleasedOnceKeyAbsent ==
    \A c \in Callers :
        (kind[c] = "withLock" /\ pc[c] = "done" /\ fnRuns[c] = 1 /\ reply[c] # "Err")
            => (nRelease[c] = 1 /\ storeVal[LockKey(key[c])] = NoId)

\* C7 amended: a withLock call that acquired the lock has executed exactly one
\* release, which has returned, when it returns or throws, whether fn returned
\* or threw; the key then no longer holds that call's lockId unless the
\* release's store call failed (it may hold the lockId of another owner).
C7_ReleasedOnce ==
    \A c \in Callers :
        /\ (kind[c] = "withLock" /\ pc[c] = "done" /\ fnRuns[c] = 1)
            => /\ nRelease[c] = 1
               /\ lastRet[c] \in {"true", "false"}
               /\ Holds(c, LockKey(key[c])) => reply[c] = "Err"
        /\ (kind[c] = "withLock" /\ pc[c] = "done" /\ fnOutcome[c] # "none")
            => fnRuns[c] = 1

\* A withLock call whose function threw is over: one release, the key gone.
C7_Witness ==
    \E c \in Callers :
        /\ kind[c] = "withLock" /\ pc[c] = "done" /\ fnOutcome[c] = "FnError"
        /\ nRelease[c] = 1 /\ lastRet[c] = "true"
        /\ storeVal[LockKey(key[c])] = NoId

\* C8: when every conditional set of the acquire inside withLock was answered
\* nil, withLock fails with the lock-not-acquired error; the function has not
\* been invoked and no release has been issued, then or later.
C8_LockNotAcquired ==
    [][\A c \in Callers :
        /\ (kind[c] = "withLock" /\ SetReturns(c) /\ reply[c] = "nil"
                /\ attempt[c] = retryCount[c])
            => (pc'[c] = "done" /\ result'[c] = "LockNotAcquired")
        /\ result'[c] = "LockNotAcquired"
            => /\ kind'[c] = "withLock" /\ pc'[c] = "done"
               /\ fnRuns'[c] = 0 /\ fnOutcome'[c] = "none"
               /\ nRelease'[c] = 0 /\ lastRet'[c] = "none" /\ reply'[c] = "nil"]_vars

\* A withLock call has failed with the lock-not-acquired error after retrying.
C8_Witness ==
    \E c, d \in Callers :
        /\ kind[c] = "withLock" /\ result[c] = "LockNotAcquired"
        /\ d # c /\ Holds(d, LockKey(key[c]))

\* C9: when the function passed to withLock throws, withLock fails with that
\* error, whatever became of the release, and not before the release returned;
\* when the function returns a value, withLock returns it.
C9_FnOutcomePropagates ==
    \A c \in Callers :
        kind[c] = "withLock" =>
            /\ (pc[c] = "done" /\ fnOutcome[c] = "FnError")
                => (result[c] = "FnError" /\ lastRet[c] \in {"true", "false"})
            /\ (pc[c] = "done" /\ fnOutcome[c] = "value")
                => (result[c] = "value" /\ lastRet[c] \in {"true", "false"})
            /\ pc[c] \in {"inFn", "rel", "relReply"} => result[c] = "pending"

\* The function threw, the release's store call failed, and withLock has
\* failed with the function's error.
C9_Witness ==
    \E c \in Callers :
        /\ kind[c] = "withLock" /\ pc[c] = "done" /\ fnOutcome[c] = "FnError"
        /\ reply[c] = "Err" /\ result[c] = "FnError"

\* C10: a release() or extend() whose store call fails with a transport or
\* script error returns false; it does not throw.
C10_HandleCallsNeverThrow ==
    \A c \in Callers :
        /\ (reply[c] = "Err" /\ lastRet[c] # "none") => lastRet[c] = "false"
        /\ lastRet[c] # "throw"

\* An extend() whose store call failed has returned false to the holder.
C10_Witness ==
    \E c \in Callers :
        /\ kind[c] = "acquire" /\ pc[c] = "held"
        /\ nOps[c] = 1 /\ nRelease[c] = 0
        /\ reply[c] = "Err" /\ lastRet[c] = "false"

\* The caller is through with its call and makes no release() or extend() any
\* more: it crashed, dropped its handle, or its call is over.
Gone(c) == pc[c] = "done"

\* C11: every lock key in the store has a running TTL of at least one tick;
\* a key whose holder is gone while the key still holds its lockId is
\* eventually removed from the store; and a conditional set that the store
\* runs on the absent key creates it with the acquirer's lockId and TTL and is
\* answered OK, on which acquire returns the handle.
C11_SelfExpiry ==
    /\ [](\A lk \in LockKeys : storeVal[lk] # NoId => storeTtl[lk] \in TtlValues)
    /\ \A c \in Callers :
        (Gone(c) /\ Holds(c, LockKey(key[c]))) ~> (storeVal[LockKey(key[c])] = NoId)
    /\ [][\A d \in Callers :
            /\ (SetRuns(d) /\ storeVal[LockKey(key[d])] = NoId /\ reply'[d] # "Err")
                => /\ reply'[d] = "OK"
                   /\ storeVal'[LockKey(key[d])] = lockId[d]
                   /\ storeTtl'[LockKey(key[d])] = ttlMs[d]
            /\ (SetReturns(d) /\ reply[d] = "OK") => pc'[d] \in {"held", "inFn"}]_vars

\* A holder dropped its handle without releasing, its key expired, and the
\* other caller's acquire has then been answered OK and holds the key.
C11_Witness ==
    \E c, d \in Callers :
        /\ c # d /\ kind[c] = "acquire" /\ Gone(c) /\ result[c] = "handle"
        /\ lost[c] = "expired"
        /\ kind[d] = "acquire" /\ key[d] = key[c]
        /\ pc[d] = "held" /\ result[d] = "handle" /\ Holds(d, LockKey(key[d]))

\* The latest call on c's handle was a release() and it returned true (every
\* call made on the handle so far was a release), or c's withLock is over and
\* its release returned true.
ReleasedTrue(c) ==
    /\ lastRet[c] = "true"
    /\ \/ kind[c] = "acquire" /\ pc[c] = "held" /\ nOps[c] = nRelease[c]
       \/ kind[c] = "withLock" /\ pc[c] = "done"

\* C12: the release script that answers 1 leaves the key absent, and release()
\* returns true on that answer and on no other; once it has returned true the
\* key does not hold the releaser's lockId again; and the conditional set of
\* the next acquire on that key with retryCount = 0, by the one other
\* contender, is answered OK when the store answers it and stores that
\* acquire's lockId, on which acquire returns the handle.
C12_AcquireAfterRelease ==
    [][\A c, d \in Callers :
        /\ (ReleaseRuns(c) /\ reply'[c] = "1") => storeVal'[LockKey(key[c])] = NoId
        /\ ReleaseReturns(c) => (lastRet'[c] = "true" <=> reply[c] = "1")
        /\ ReleasedTrue(c) => ~Holds(c, LockKey(key[c]))
        /\ (c # d /\ ReleasedTrue(c) /\ key[d] = key[c] /\ retryCount[d] = 0
                /\ SetRuns(d) /\ reply'[d] # "Err")
            => (reply'[d] = "OK" /\ storeVal'[LockKey(key[d])] = lockId[d])
        /\ (kind[d] = "acquire" /\ SetReturns(d) /\ reply[d] = "OK")
            => (pc'[d] = "held" /\ result'[d] = "handle")]_vars

\* A holder's release() returned true, and the other caller's acquire with
\* retryCount = 0 has then had its one conditional set answered OK and holds
\* the key.
C12_Witness ==
    \E c, d \in Callers :
        /\ c # d /\ kind[c] = "acquire" /\ ReleasedTrue(c) /\ lost[c] = "no"
        /\ kind[d] = "acquire" /\ key[d] = key[c] /\ retryCount[d] = 0
        /\ pc[d] = "setReply" /\ reply[d] = "OK"
        /\ lost[d] = "no" /\ Holds(d, LockKey(key[d]))

\* The step is a forceRelease(k) that shows: it changed what forceRelease
\* last returned, or it removed the key from under its holder.
ForceReleaseActs(k) ==
    /\ pc' = pc
    /\ \/ forceRet' # forceRet
       \/ \E c \in Callers :
             Holds(c, LockKey(k)) /\ storeVal'[LockKey(k)] = NoId /\ lost'[c] = "forced"

\* C13: a forceRelease(k) that returns leaves the lock key for k absent,
\* whatever lockId it held; it returns true when the key was there and was
\* deleted and false when there was no key (it throws when the del fails in
\* transport); and once it has deleted a holder's key, the key never holds
\* that holder's lockId again, the scripts of the holder's later release()
\* and extend() change nothing and are not answered 1, and those calls
\* return false.
C13_ForceRelease ==
    [][/\ \A k \in Keys :
            ForceReleaseActs(k) =>
                /\ forceRet' \in {"true", "false", "throw"}
                /\ forceRet' # "throw" =>
                      (storeVal'[LockKey(k)] = NoId /\ storeTtl'[LockKey(k)] = NoKeyTtl)
                /\ forceRet' = "true" => storeVal[LockKey(k)] # NoId
                /\ forceRet' = "false" => storeVal[LockKey(k)] = NoId
       /\ \A c \in Callers :
            /\ lost[c] = "forced" => ~Holds(c, LockKey(key[c]))
            /\ ((ReleaseRuns(c) \/ ExtendRuns(c)) /\ lost[c] = "forced")
                => (reply'[c] \in {"0", "Err"} /\ storeVal' = storeVal /\ storeTtl' = storeTtl)
            /\ ((ReleaseReturns(c) \/ ExtendReturns(c)) /\ reply[c] \in {"0", "Err"})
                => lastRet'[c] = "false"]_vars

\* forceRelease returned true on a key held by a caller, whose release() or
\* extend() on its handle has since been answered 0 and returned false, while
\* the key is held by another owner.
C13_Witness ==
    \E c, d \in Callers :
        /\ forceRet = "true" /\ lost[c] = "forced"
        /\ kind[c] = "acquire" /\ pc[c] = "held" /\ nOps[c] >= 1
        /\ reply[c] = "0" /\ lastRet[c] = "false"
        /\ d # c /\ Holds(d, LockKey(key[c]))

\* The step is a getClient call that shows (one whose outcome differs from the
\* latest one's).
GetClientReturns == got' # got

\* C14: getClient(name) for a name with no entry in the registry throws
\* RedisClientNotFoundError carrying that name and returns nothing; whenever
\* getClient returns, it returns a client, the one registered under the name
\* asked for (never the default connection's in its place).
C14_GetClientNotFound ==
    [][GetClientReturns =>
        /\ clients[got'.name] = NoClient =>
              /\ got'.threw = "RedisClientNotFoundError"
              /\ got'.clientName = got'.name
              /\ got'.client = NoClient
        /\ got'.threw = "none" =>
              (got'.client # NoClient /\ got'.client = clients[got'.name])]_vars

\* getClient threw for a name that has no client while the default
\* connection is registered.
C14_Witness ==
    /\ got.name = "cache" /\ got.threw = "RedisClientNotFoundError" /\ got.clientName = "cache"
    /\ clients["cache"] = NoClient /\ clients[DEFAULT_REDIS_NAME] # NoClient

\* C15: the registry maps each name to the client passed to the latest
\* addClient for that name since which no removeClient of the name (and no
\* shutdown) has completed, and to nothing when there is none; getClient
\* returns exactly that client, so a re-registration overwrites the mapping.
C15_OneClientPerName ==
    /\ [](clients = registered)
    /\ [][GetClientReturns =>
            IF registered[got'.name] = NoClient
            THEN got'.threw # "none" /\ got'.client = NoClient
            ELSE got'.threw = "none" /\ got'.client = registered[got'.name]]_vars

\* A name was registered with client A, a removeClient of it is awaiting A's
\* quit(), the name has been re-registered with client B, and getClient
\* returns B.
C15_Witness ==
    \E m \in Removers :
        /\ rpc[m] = "quitting" /\ rName[m] = DEFAULT_REDIS_NAME /\ rClient[m] = "A"
        /\ clients[DEFAULT_REDIS_NAME] = "B"
        /\ got.name = DEFAULT_REDIS_NAME /\ got.client = "B"

\* The step is onModuleDestroy finishing (resolving or rejecting).
DestroyFinishes == dpc = "racing" /\ dpc' = "done"

\* C16: when onModuleDestroy finishes it resolves and the registry map is
\* empty, whether every quit() was fulfilled, some quit() was rejected, or
\* the timeout fired with quit() promises still pending.
C16_ShutdownEmptiesRegistry ==
    [][DestroyFinishes => (dRet' = "ok" /\ clients' = EmptyMap)]_vars

\* onModuleDestroy finished on the timeout, one quit() rejected and another
\* still pending, and the map is empty.
C16_Witness ==
    /\ dpc = "done" /\ dRet = "ok" /\ clients = EmptyMap
    /\ \E n, o \in Names : dQuits[n] = "rejected" /\ dQuits[o] = "pending"

\* C17: onModuleDestroy calls quit() on every connection of the registry
\* before it awaits any; a rejected quit() does not reject the combined
\* close; onModuleDestroy never throws; and once begun it finishes.
C17_QuitFailureSuppressed ==
    /\ [][(dpc = "idle" /\ dpc' = "racing") =>
            \A n \in Names : clients[n] # NoClient => dQuits'[n] = "pending"]_vars
    /\ [](CloseSettled(dQuits) # "rejected" /\ dRet # "throw")
    /\ [][DestroyFinishes => dRet' = "ok"]_vars
    /\ (dpc = "racing") ~> (dpc = "done")

\* onModuleDestroy resolved after the quit() of one connection was rejected
\* and the quit() of the other was fulfilled.
C17_Witness ==
    /\ dpc = "done" /\ dRet = "ok"
    /\ \E n, o \in Names : dQuits[n] = "rejected" /\ dQuits[o] = "fulfilled"

\* C18: removeClient(name) for a registered name calls quit() on the client
\* registered under it and changes nothing before quit() settles; when quit()
\* settles, fulfilled or rejected, the name is deleted from the map, no other
\* entry is touched, and true is returned.  For a name with no entry it
\* returns false and the map is unchanged.
C18_RemoveClient ==
    [][\A m \in Removers :
        /\ (rpc[m] = "idle" /\ rpc'[m] = "quitting")
            => /\ clients[rName'[m]] # NoClient /\ rClient'[m] = clients[rName'[m]]
               /\ clients' = clients /\ rRet'[m] = "none"
        /\ (rpc[m] = "quitting" /\ rpc'[m] = "idle")
            => /\ rQuit'[m] \in Settled /\ rRet'[m] = "true"
               /\ clients' = [clients EXCEPT ![rName[m]] = NoClient]
        /\ (rpc[m] = "idle" /\ rpc'[m] = "idle" /\ <<rName[m], rRet[m]>> # <<rName'[m], rRet'[m]>>)
            => (rRet'[m] = "false" /\ clients[rName'[m]] = NoClient /\ clients' = clients)
        /\ rRet'[m] = "true" => rpc'[m] = "idle" /\ rClient'[m] # NoClient]_vars

\* A removeClient whose quit() was rejected has returned true and the name
\* is gone, while the other name keeps its client.
C18_Witness ==
    \E m \in Removers :
        /\ rpc[m] = "idle" /\ rQuit[m] = "rejected" /\ rRet[m] = "true"
        /\ rClient[m] # NoClient /\ clients[rName[m]] = NoClient
        /\ \E n \in Names : n # rName[m] /\ clients[n] # NoClient

\* The step is a pub/sub call running up to its return or its first await
\* (not the continuation of a subscribe call) with an outcome that shows.
PubSubCallStep ==
    /\ sub' # sub
    /\ \A p \in PubSubCallers : ~(ppc[p] = "subscribing" /\ ppc'[p] = "idle")
\* The step is the clear() that ends the pub/sub shutdown.
PubSubCleared == spc = "quits" /\ spc' = "done"

\* C19: for each name, the main connection is duplicated only when the table
\* has no subscriber connection for the name, the table's entry stays the
\* same instance until the shutdown clears the table, and every
\* getSubscriberClient, subscribe and psubscribe call that does not throw
\* returns or uses the instance the table holds for its name; so with no
\* shutdown completed the name has been duplicated at most once and all
\* calls in flight use that one instance.
C19_OneSubscriberPerName ==
    /\ [](\A n \in Names :
            /\ nDup[n] <= (IF spc = "done" THEN 2 ELSE 1)
            /\ spc # "done" =>
                  \A p \in PubSubCallers :
                      (ppc[p] = "subscribing" /\ pName[p] = n)
                          => pClient[p] = subscriberClients[n])
    /\ [][/\ \A n \in Names :
               /\ nDup'[n] # nDup[n] =>
                     /\ subscriberClients[n] = NoSubscriber
                     /\ nDup'[n] = nDup[n] + 1
                     /\ subscriberClients'[n] = Duplicate(clients[n], nDup'[n])
               /\ subscriberClients'[n] # subscriberClients[n] =>
                     \/ PubSubCleared
                     \/ subscriberClients[n] = NoSubscriber /\ nDup'[n] = nDup[n] + 1
           /\ (PubSubCallStep /\ sub'.op # "publish" /\ sub'.threw = "none") =>
                 /\ sub'.client # NoSubscriber
                 /\ sub'.client = subscriberClients'[sub'.name]
                 /\ subscriberClients[sub'.name] # NoSubscriber
                       => sub'.client = subscriberClients[sub'.name]]_vars

\* A subscribe and a psubscribe call for one name are in flight on the same
\* subscriber connection, the one getSubscriberClient has just returned, and
\* the name's main connection has been duplicated once.
C19_Witness ==
    \E p, q \in PubSubCallers :
        /\ ppc[p] = "subscribing" /\ pKind[p] = "subscribe"
        /\ ppc[q] = "subscribing" /\ pKind[q] = "psubscribe"
        /\ pName[p] = DEFAULT_REDIS_NAME /\ pName[q] = DEFAULT_REDIS_NAME
        /\ pClient[p] = pClient[q] /\ pClient[p] # NoSubscriber
        /\ sub.op = "getSubscriberClient" /\ sub.name = DEFAULT_REDIS_NAME
        /\ sub.client = pClient[p] /\ nDup[DEFAULT_REDIS_NAME] = 1

\* C20 as stated: a getSubscriberClient, subscribe or psubscribe call for a
\* name that has no main connection in the registry throws the
\* main-connection-not-found error, leaves the subscriber table as it is and
\* registers no teardown (none is pushed and no call is left in flight); a
\* publish for such a name throws the client-not-found error.
C20_NoMainConnectionFails ==
    [][(PubSubCallStep /\ clients[sub'.name] = NoClient) =>
          IF sub'.op = "publish"
          THEN sub'.threw = "ClientNotFound"
          ELSE /\ sub'.threw = "MainClientNotFound"
               /\ subscriberClients' = subscriberClients
               /\ cleanupFunctions' = cleanupFunctions /\ ppc' = ppc]_vars

\* The commands of subscriber mode.
SubscriberCommands == {"subscribe", "psubscribe", "unsubscribe", "punsubscribe"}
\* Connection cn is a duplicate made for subscriptions, not a client of the
\* registry.
IsDuplicate(cn) == cn[2] > 0

\* C21: every subscribe, psubscribe, unsubscribe and punsubscribe command the
\* service sends goes out on a duplicated subscriber connection, every
\* publish goes out on the client the registry holds for the name, and a
\* subscriber connection is sent nothing but those four commands and quit.
C21_SubscriberConnectionsOnly ==
    [][wire' # wire =>
          \A m \in wire' :
              /\ m[2] \in SubscriberCommands => IsDuplicate(m[1])
              /\ m[2] = "publish" =>
                    /\ ~IsDuplicate(m[1])
                    /\ sub'.op = "publish" /\ m[1] = Conn(clients[sub'.name])
              /\ IsDuplicate(m[1]) => m[2] \in SubscriberCommands \cup {"quit"}]_vars

\* A publish has just gone out on the main connection of a name that has a
\* subscriber connection with subscriptions of both kinds on it.
C21_Witness ==
    /\ \E m \in wire : m[2] = "publish" /\ m[1] = Conn(clients[DEFAULT_REDIS_NAME])
    /\ subscriberClients[DEFAULT_REDIS_NAME] # NoSubscriber
    /\ \E i, j \in DOMAIN cleanupFunctions :
          /\ cleanupFunctions[i].kind = "subscribe" /\ cleanupFunctions[j].kind = "psubscribe"
          /\ cleanupFunctions[i].client = subscriberClients[DEFAULT_REDIS_NAME]
          /\ cleanupFunctions[j].client = subscriberClients[DEFAULT_REDIS_NAME]

\* The step is the transport emitting a 'message' (kd = "subscribe") or a
\* 'pmessage' event on a subscriber connection.
Emits(kd) == dispatch' # NoDispatch /\ dispatch'.kind = kd
\* The listeners of kind kd attached to the connection of the emit.
Listening(kd) ==
    {j \in DOMAIN handlers : handlers[j].kind = kd /\ handlers[j].client = dispatch'.client}
\* The number of times the callback of subscription i was invoked in an emit.
Invocations(d, i) == Cardinality({k \in DOMAIN d.invoked : d.invoked[k] = i})

\* C22: when a message arrives on a subscriber connection, the callback of
\* each subscribe() subscription registered on that connection and not torn
\* down is invoked exactly once if the message's channel is one of the
\* subscription's channels and not at all otherwise, and no other callback is
\* invoked.
C22_SubscribeCallbackFiltered ==
    [][Emits("subscribe") =>
          /\ \A j \in Listening("subscribe") :
                Invocations(dispatch', handlers[j].id) =
                    IF dispatch'.topic \in handlers[j].channels THEN 1 ELSE 0
          /\ \A k \in DOMAIN dispatch'.invoked :
                \E j \in Listening("subscribe") : handlers[j].id = dispatch'.invoked[k]]_vars

\* Two subscriptions share the subscriber connection, one for "orders" and
\* one for "payments"; a message on "payments" has reached the connection and
\* only the second subscription's callback was invoked.
C22_Witness ==
    /\ dispatch.kind = "subscribe" /\ dispatch.topic = "payments"
    /\ \E i, j \in DOMAIN handlers :
          /\ handlers[i].kind = "subscribe" /\ handlers[i].channels = {"orders"}
          /\ handlers[j].kind = "subscribe" /\ handlers[j].channels = {"payments"}
          /\ handlers[i].client = dispatch.client /\ handlers[j].client = dispatch.client
          /\ dispatch.invoked = <<handlers[j].id>>

\* C23 as stated: when a pattern message arrives on a subscriber connection,
\* the callback of a psubscribe() subscription registered on that connection
\* is invoked only if the matched pattern is one of the subscription's
\* patterns, as the callback of a subscribe() subscription is for channels.
C23_PsubscribeCallbackFiltered ==
    [][Emits("psubscribe") =>
          \A j \in Listening("psubscribe") :
              Invocations(dispatch', handlers[j].id) > 0
                  => dispatch'.topic \in handlers[j].channels]_vars

\* C24: whichever callbacks throw while a message is handled, and whichever
\* threw while the message before it was handled, no exception leaves the
\* emit, the callback of every subscription attached to the connection for
\* the message's channel or pattern is invoked, once, and the listeners and
\* the store's subscriptions stay as they are for the messages to come.
C24_CallbackThrowContained ==
    [][\A kd \in SubKinds :
          Emits(kd) =>
              /\ ~dispatch'.escaped
              /\ \A j \in Listening(kd) :
                    dispatch'.topic \in handlers[j].channels
                        => Invocations(dispatch', handlers[j].id) = 1
              /\ handlers' = handlers
              /\ serverSubs' = serverSubs]_vars

\* The callback of one subscription threw while a message was handled, the
\* callback of another subscription on the connection was invoked after it
\* for the same message; the first had been invoked, and had thrown, for the
\* message before as well.
C24_Witness ==
    /\ ~dispatch.escaped
    /\ Len(dispatch.invoked) = 2
    /\ dispatch.threw = {dispatch.invoked[1]}
    /\ dispatch.before = {dispatch.invoked[1]}

\* The step is the subscriber calling the teardown of subscription i.
TeardownCalled(i) == i \in tCalled' \ tCalled

\* C25: a call of the teardown that subscribe or psubscribe returned for a
\* subscription detaches that subscription's listener and no other, and sends
\* one command, the unsubscribe (punsubscribe) of exactly the subscription's
\* channels (patterns), on the connection the subscription was made on; from
\* then on, so also once the teardown has completed, the subscription's
\* callback is not invoked for any message.
C25_TeardownExact ==
    /\ [][\A i \in SubIds :
             TeardownCalled(i) =>
                 /\ handlers' = SelectSeq(handlers, LAMBDA h : h.id # i)
                 /\ wire' = {<<cleanupFunctions[i].client, Unsubscribe(cleanupFunctions[i].kind),
                               cleanupFunctions[i].channels>>}
                 /\ \A j \in DOMAIN handlers :
                       handlers[j].id = i =>
                           /\ handlers[j].client = cleanupFunctions[i].client
                           /\ handlers[j].channels = cleanupFunctions[i].channels]_vars
    /\ [][\A kd \in SubKinds :
             Emits(kd) => \A k \in DOMAIN dispatch'.invoked : tRuns[dispatch'.invoked[k]] = 0]_vars

\* The teardown of a subscribe() subscription has completed, and a message on
\* one of its channels has since reached its connection and was handed to
\* another subscription's callback, not to its own.
C25_Witness ==
    \E i \in DOMAIN cleanupFunctions :
        /\ cleanupFunctions[i].kind = "subscribe"
        /\ i \in tCalled /\ i \notin pendingT
        /\ dispatch.kind = "subscribe" /\ dispatch.client = cleanupFunctions[i].client
        /\ dispatch.topic \in cleanupFunctions[i].channels
        /\ dispatch.invoked # <<>>
        /\ \A k \in DOMAIN dispatch.invoked : dispatch.invoked[k] # i

\* The step is the pub/sub onModuleDestroy calling its teardowns, calling
\* quit() on subscriber connections, and returning or throwing.
ShutdownBegins == spc \in {"idle", "done"} /\ spc' = "cleanups"
ShutdownQuits == quitted' # quitted \/ \E m \in wire' : m[2] = "quit"
ShutdownEnds == spc # "done" /\ spc' = "done"

\* C26: the pub/sub onModuleDestroy calls every teardown registered when it is
\* called, whatever becomes of the others; it calls quit() on a subscriber
\* connection only when each of those teardowns has settled, fulfilled or
\* rejected, and then on every connection of the table; it never throws,
\* whether teardowns or quits fail; and when it returns the table is empty.
C26_ShutdownOrdering ==
    /\ [](sRet # "throw")
    /\ [][/\ ShutdownBegins =>
               \A i \in DOMAIN cleanupFunctions :
                   tRuns'[i] = tRuns[i] + 1 /\ sCleanups'[i] = "pending"
          /\ ShutdownQuits =>
               /\ spc = "cleanups" /\ spc' = "quits"
               /\ \A i \in SubIds : sCleanups[i] # "pending"
          /\ (spc = "cleanups" /\ spc' # "cleanups") =>
               /\ spc' = "quits"
               /\ \A n \in Names :
                     subscriberClients[n] # NoSubscriber =>
                         <<subscriberClients[n], "quit", {}>> \in wire'
          /\ ShutdownEnds =>
               /\ spc = "quits" /\ sRet' = "ok"
               /\ \A n \in Names : subscriberClients'[n] = NoSubscriber]_vars

\* The shutdown has called quit() on the subscriber connection after one of
\* the teardowns it ran was rejected, and that quit() was rejected as well.
C26_Witness ==
    /\ spc = "quits"
    /\ \E i \in DOMAIN cleanupFunctions : sCleanups[i] = "rejected"
    /\ sQuits[DEFAULT_REDIS_NAME] # NoSubscriber
    /\ sQuits[DEFAULT_REDIS_NAME] \in quitted
    /\ sCloses[DEFAULT_REDIS_NAME] = "rejected"

\* C27 as stated: the shutdown runs only the teardowns that have not been
\* run before, by the subscriber or by an earlier shutdown, so that none is
\* run a second time by it; and a shutdown called after one has completed
\* runs no teardown, sends no command and returns without an error.
C27_TeardownAtMostOnce ==
    /\ [][ShutdownBegins => \A i \in SubIds : tRuns'[i] > tRuns[i] => tRuns[i] = 0]_vars
    /\ [](sRet # "throw")
    /\ [][(ShutdownBegins /\ nCleared > 0) => (tRuns' = tRuns /\ wire' = {})]_vars


\* ---- C28 ----------------------------------------------------------------
\* A call through a wrapper, of a method or of the client property.
WrapperInvoked == inv.prop # "none"
\* A call of a method that passes the method's own arguments only.
WrapperInvokedPlain ==
    /\ WrapperInvoked
    /\ inv.prop # "client"
    /\ OwnArgumentsOnly(OperationNamed(inv.prop), inv.args)

\* C28 as stated: every operation invoked through the wrapper returned by
\* withClient(name) resolves its connection with getClient(name).
C28_EveryCallUsesBoundName == WrapperInvoked => inv.resolved = inv.asked

\* What the wrapper does guarantee: a method called with its own arguments
\* only, the optional ones given or not, resolves its connection with
\* getClient(name), name being the one given to the withClient call that
\* made the wrapper, on the service or on another wrapper.
PlainCallUsesBoundName ==
    WrapperInvokedPlain => /\ inv.resolved = inv.asked
                           /\ got.name = inv.asked

\* increment(key) through a wrapper bound to "cache" that was made by
\* withClient("cache") on a wrapper bound to the default name.
PlainCallWitness ==
    /\ WrapperInvokedPlain
    /\ inv.prop = "increment"
    /\ Len(inv.args) = 1
    /\ inv.passed = <<Value, NoClient, "cache">>
    /\ inv.asked = "cache"
    /\ proxy = [name |-> "cache", asked |-> "cache", from |-> DEFAULT_REDIS_NAME]
    /\ got.name = "cache"


\* ---- C29 ----------------------------------------------------------------
\* The step is c's acquire issuing a conditional set: the first one, or the
\* one of the next turn of its loop.
SetIssued(c) == pc[c] # "set" /\ pc'[c] = "set"

\* C29: within one acquire call the conditional sets are strictly sequential.
\* The call issues its first set with no other of its commands outstanding;
\* it issues set i + 1 only out of the retry delay it took after set i was
\* answered nil, so with no command of the call outstanding; and every set
\* carries the owner token the call generated, which the call never changes.
C29_SequentialAttempts ==
    [][\A c \in Callers :
        /\ SetIssued(c) =>
            /\ nSet'[c] = nSet[c] + 1
            /\ nSet[c] = 0 => pc[c] = "idle"
            /\ nSet[c] >= 1 =>
                /\ pc[c] = "delay"
                /\ reply[c] = "nil"
                /\ nDelay[c] = nSet[c]
                /\ lockId'[c] = lockId[c]
                /\ key'[c] = key[c]
        /\ SetRuns(c) =>
            /\ lockId[c] = generateLockId(c)
            /\ \A lk \in LockKeys :
                storeVal'[lk] # storeVal[lk] =>
                    (lk = LockKey(key[c]) /\ storeVal'[lk] = lockId[c])
        /\ (pc[c] \in {"set", "setReply", "delay"} /\ pc'[c] \in {"set", "setReply", "delay"}) =>
            lockId'[c] = lockId[c]]_vars

\* The second set of an acquire call has reached the store with the call's
\* token, after the first was answered nil and the delay was taken.
C29_Witness ==
    \E c \in Callers :
        /\ pc[c] = "setReply" /\ nSet[c] = 2 /\ nDelay[c] = 1 /\ attempt[c] = 1
        /\ reply[c] = "OK"
        /\ storeVal[LockKey(key[c])] = generateLockId(c)


\* ---- C30 ----------------------------------------------------------------
\* acquire has returned a handle carrying c's lockId, to c or to the withLock
\* call c made.
HandleReturned(c) ==
    \/ kind[c] = "acquire" /\ result[c] = "handle"
    \/ kind[c] = "withLock" /\ fnRuns[c] >= 1
\* c's acquire call is awaiting the reply to a conditional set.
AwaitsSetReply(c) == pc[c] = "setReply"

\* C30: in every reachable state a lock key that exists in the store holds
\* the lockId of a handle that an acquire call has returned and on which
\* release() has not returned true, runs with lost replies and failed store
\* calls included.  The moment between the store running a conditional set
\* and the acquire call resuming with its reply is not held against the
\* claim: a key set by a call that is still awaiting that reply passes.
C30_KeyOnlyWhileHeld ==
    \A lk \in LockKeys :
        storeVal[lk] # NoId =>
            \E c \in Callers :
                /\ Holds(c, lk)
                /\ (HandleReturned(c) /\ ~ReleasedTrue(c)) \/ AwaitsSetReply(c)

\* ---- C31 ----------------------------------------------------------------
\* The step is onModuleDestroy finishing on the timeout: the combined close
\* is still pending.
DestroyTimesOut == DestroyFinishes /\ CloseSettled(dQuits) = "pending"

\* C31: an onModuleDestroy that is awaiting its quit() promises finishes,
\* also when none of them ever settles (the timeout fires); when it finishes
\* on the timeout it resolves, the timeout is not thrown to the caller, and
\* the map has been cleared.
C31_ShutdownTerminates ==
    /\ (dpc = "racing") ~> (dpc = "done" /\ dRet = "ok")
    /\ [][DestroyTimesOut => (dRet' = "ok" /\ clients' = EmptyMap)]_vars

\* onModuleDestroy has resolved with the quit() of every connection it
\* closed still pending.
C31_Witness ==
    /\ dpc = "done" /\ dRet = "ok" /\ clients = EmptyMap
    /\ \A n \in Names : dQuits[n] = "pending"

\* ---- C32 ----------------------------------------------------------------
\* C32: a connection of the registry never enters subscriber mode: the store
\* holds subscriptions of duplicates only, no subscribe or psubscribe goes
\* out on a connection getClient returns, and no ordinary command on such a
\* connection is rejected because of subscriber mode.
C32_MainNeverSubscriber ==
    /\ \A e \in serverSubs : IsDuplicate(e[1])
    /\ \A m \in wire : m[2] \in SubKinds => IsDuplicate(m[1])
    /\ sub.threw # "SubscriberModeError"

\* ---- C33 ----------------------------------------------------------------
\* C33: in every reachable state each entry of the subscriber table is
\* stored under a name the registry holds and is a duplicate of the client
\* the registry holds under that name, also after removeClient and after the
\* name has been registered again.
C33_SubscriberMatchesMain ==
    \A n \in Names :
        subscriberClients[n] # NoSubscriber =>
            /\ clients[n] # NoClient
            /\ IsDuplicate(subscriberClients[n])
            /\ subscriberClients[n][1] = clients[n]

\* ---- C34 ----------------------------------------------------------------
\* C34: the teardown of one subscription does not stop delivery to another:
\* every subscription whose listener is still attached after the teardown
\* ran, and whose channels (or patterns) the store delivered to its
\* connection before, is still delivered them afterwards, also when it
\* shares a channel with the subscription torn down.
C34_TeardownLeavesOthers ==
    [][\A i \in SubIds :
        TeardownCalled(i) =>
            \A j \in DOMAIN handlers' :
                \A t \in handlers'[j].channels :
                    <<handlers'[j].client, handlers'[j].kind, t>> \in serverSubs
                        => <<handlers'[j].client, handlers'[j].kind, t>> \in serverSubs']_vars

\* ---- C35 ----------------------------------------------------------------
\* The step is removeClient call m resuming after its quit() settled.
RemoveCompletes(m) == rpc[m] = "quitting" /\ rpc'[m] = "idle"

\* C35: removeClient(name) removes from the registry only the client it
\* closed: when the name holds another client as removeClient completes,
\* one registered by addClient while the quit() was in flight, that client
\* is still the one the name resolves to afterwards.
C35_RemovesOnlyClosedClient ==
    [][\A m \in Removers :
        (RemoveCompletes(m) /\ clients[rName[m]] \notin {NoClient, rClient[m]})
            => /\ clients'[rName[m]] = clients[rName[m]]
               /\ GetClient(clients', rName[m]).client = clients[rName[m]]]_vars

\* ---- C36 ----------------------------------------------------------------
\* quit() has been called on the client of name n: by onModuleDestroy, which
\* found the name in the map, or by a removeClient of the name.
QuitInvokedOn(n) ==
    \/ dQuits[n] # "none"
    \/ \E m \in Removers : rName[m] = n /\ rClient[m] # NoClient

\* C36: every client that onModuleDestroy drops from the map when it clears
\* it has had quit() called on it, the clients that addClient registered
\* while onModuleDestroy was awaiting included.
C36_DroppedClientsWereClosed ==
    [][(DestroyFinishes /\ dRet' = "ok") =>
           \A n \in Names : clients[n] # NoClient => QuitInvokedOn(n)]_vars

\* ---- C37 ----------------------------------------------------------------
\* C37: getClient(name) never returns a client on which removeClient or
\* onModuleDestroy has already called quit(), whatever removeClient or
\* shutdown is in flight.
C37_NoClientAfterQuit ==
    [][(got' # got /\ got'.client # NoClient) => ~QuitInvokedOn(got'.name)]_vars

\* ---- C38 ----------------------------------------------------------------
\* C38: when the pub/sub onModuleDestroy completes, quit() has been called on
\* every subscriber connection the table held, the ones created by calls
\* that ran while the shutdown was awaiting included, and the table is empty.
C38_ShutdownClosesEverySubscriber ==
    [][PubSubCleared =>
           /\ \A n \in Names :
                  subscriberClients[n] # NoSubscriber => subscriberClients[n] \in quitted
           /\ \A n \in Names : subscriberClients'[n] = NoSubscriber]_vars

\* ---- C39: the @Cacheable wrapper ---------------------------------------------
\* A call of the decorated method on an instance with a redisService is over.
CacheCallDone == cacheCall.pc = "done" /\ cacheCall.redisService
\* The GET of the call was answered with a text / with a text JSON.parse accepts.
ReadNonNull == cacheCall.cached.state = "fulfilled" /\ ~cacheCall.cached.reply.null
ReadParses == ReadNonNull /\ ~JSONParse(cacheCall.cached.reply.text).threw
\* The GET of the call was answered with null, or was rejected.
ReadNullOrFailed ==
    \/ cacheCall.cached.state = "rejected"
    \/ cacheCall.cached.state = "fulfilled" /\ cacheCall.cached.reply.null
\* The method did not run, nothing was written, the parsed text was returned.
ReturnsCached ==
    /\ cacheCall.runs = 0
    /\ cacheCall.sent = NoCommand
    /\ cacheCall.ret = [state |-> "returned",
                        value |-> JSONParse(cacheCall.cached.reply.text).value]
\* The method ran once and the call ended as the method did; its result was
\* sent serialized under the key that was read, with the ttl when one is
\* given, unless unless(result) held or the result cannot be serialized.
RunsMethodOnce ==
    /\ cacheCall.runs = 1
    /\ cacheCall.ret = cacheCall.result
    /\ cacheCall.result.state = "threw" => cacheCall.sent = NoCommand
    /\ cacheCall.result.state = "returned" =>
           LET value == cacheCall.result.value
               serialized == JSONStringify(value)
           IN IF \/ cacheCall.unless = "isNull" /\ value = JsNull
                 \/ serialized.threw
              THEN cacheCall.sent = NoCommand
              ELSE cacheCall.sent =
                       [cmd |-> IF cacheCall.ttl = 0 THEN "set" ELSE "setWithTTL",
                        key |-> cacheCall.cacheKey, value |-> serialized.text,
                        undefined |-> serialized.undefined, ttl |-> cacheCall.ttl]
\* The call fails only when the method itself threw.
OnlyTheMethodFails == cacheCall.ret.state = "threw" => cacheCall.result.state = "threw"

====
